---- MODULE Spec2Model ----
(***************************************************************************)
(* Token-based session lifecycle and route-protection gate of feature-map. *)
(*                                                                         *)
(* The repository holds three revisions of the route gate:                 *)
(*   middleware      src/src/middleware.ts:27-89   (delegates the refresh  *)
(*                   to POST /api/auth/refresh, lets the request through   *)
(*                   when the refresh fails)                               *)
(*   middlewareEdge  src/src/middleware.ts:134-187 (verifies the refresh   *)
(*                   token inline and mints the access token itself)       *)
(*   middleware008   src/unnamed/part_008:22-82    (delegates the refresh, *)
(*                   redirects when the refresh fails)                     *)
(* A pathname is a sequence of chunks, each "/" or a piece of a segment,   *)
(* so that string equality and startsWith are sequence equality and        *)
(* sequence prefix.  A token is the triple the JWT string encodes.         *)
(*                                                                         *)
(* The token codec is also exercised on its own (SpecCodec), and the       *)
(* session endpoints login, register, OAuth callback, test-login, refresh  *)
(* and logout answer requests against the user table (SpecAuth).           *)
(***************************************************************************)
EXTENDS Integers, Sequences, FiniteSets, TLC

VARIABLES now, ticks, users, jar, last, rows, resp, codec, pwcheck,
          loggedOut, flight

vars == <<now, ticks, users, jar, last, rows, resp, codec, pwcheck,
          loggedOut, flight>>

\* what the gate and the client never touch: the columns of the user table,
\* the bench of the token codec and of the password policy, and the note of
\* the last logout
others == <<rows, codec, pwcheck, loggedOut, flight>>

(***************************************************************************)
(* Bounds of the model                                                     *)
(***************************************************************************)
MaxTicks == 2

UserIds == {"u1", "u2"}

(***************************************************************************)
(* Token codec                                                             *)
(***************************************************************************)
JWT_SECRET == "dev-secret-key-change-in-production"
ACCESS_TTL == 900
REFRESH_TTL == 604800

NoPayload == [userId |-> "", type |-> "", iat |-> 0, exp |-> 0]
NoSig == [key |-> "", over |-> NoPayload]

\* a cookie slot that the request does not carry
NoCookie == [form |-> "absent", payload |-> NoPayload, sig |-> NoSig]
\* a cookie sent with the empty string as value
EmptyValue == [form |-> "empty", payload |-> NoPayload, sig |-> NoSig]
\* a string that is not header.payload.signature
Malformed == [form |-> "malformed", payload |-> NoPayload, sig |-> NoSig]

\* HS256 signature segment: determined by the key and the signed payload
Sign(payload, key) == [key |-> key, over |-> payload]

jwt_sign(userId, type, t, ttl) ==
  LET payload == [userId |-> userId, type |-> type, iat |-> t, exp |-> t + ttl]
  IN  [form |-> "jwt", payload |-> payload, sig |-> Sign(payload, JWT_SECRET)]

\* mutant: expiresIn "15h" instead of "15m"
generateAccessToken_hours(userId, t) ==
  jwt_sign(userId, "access", t, 60 * ACCESS_TTL)

generateAccessToken(userId, t) == jwt_sign(userId, "access", t, ACCESS_TTL)

\* mutant: the refresh token is minted with the kind of an access token
generateRefreshToken_accessKind(userId, t) ==
  jwt_sign(userId, "access", t, REFRESH_TTL)

generateRefreshToken(userId, t) == jwt_sign(userId, "refresh", t, REFRESH_TTL)

\* mutant: the token is minted for a fixed subject instead of the caller's
generateAccessTokenEdge_fixedSubject(userId, t) ==
  jwt_sign("u1", "access", t, ACCESS_TTL)

generateAccessTokenEdge(userId, t) == jwt_sign(userId, "access", t, ACCESS_TTL)

\* mutant: the payload is decoded without checking the signature segment
jwt_verify_noSignatureCheck(token, t) ==
  IF token.form # "jwt" THEN [ok |-> FALSE, err |-> "invalid", payload |-> NoPayload]
  ELSE IF t >= token.payload.exp
    THEN [ok |-> FALSE, err |-> "expired", payload |-> NoPayload]
  ELSE [ok |-> TRUE, err |-> "", payload |-> token.payload]

\* jwt.verify / jwtVerify: structure, then signature, then expiry
jwt_verify(token, t) ==
  IF token.form # "jwt" THEN [ok |-> FALSE, err |-> "invalid", payload |-> NoPayload]
  ELSE IF token.sig # Sign(token.payload, JWT_SECRET)
    THEN [ok |-> FALSE, err |-> "invalid", payload |-> NoPayload]
  ELSE IF t >= token.payload.exp
    THEN [ok |-> FALSE, err |-> "expired", payload |-> NoPayload]
  ELSE [ok |-> TRUE, err |-> "", payload |-> token.payload]

\* mutant: a token is still accepted during the second of its expiry
verifyToken_graceSecond(token, t) ==
  IF token.form \in {"absent", "empty"}
    THEN [ok |-> FALSE, err |-> "required", payload |-> NoPayload]
    ELSE jwt_verify(token, t - 1)

verifyToken(token, t) ==
  IF token.form \in {"absent", "empty"}
    THEN [ok |-> FALSE, err |-> "required", payload |-> NoPayload]
    ELSE jwt_verify(token, t)

verifyTokenEdge(token, t) == jwt_verify(token, t)

\* JavaScript truthiness of `cookies.get(name)?.value`
Truthy(value) == value.form \notin {"absent", "empty"}

\* a token whose payload was altered while the signature segment was kept
Tamper(token) == [token EXCEPT !.payload.exp = @ + REFRESH_TTL]

\* a token whose signature segment was replaced: `${parts[0]}.${parts[1]}.x`
TamperSig(token) == [token EXCEPT !.sig.key = "invalid-signature"]

(***************************************************************************)
(* Path classification                                                     *)
(***************************************************************************)
StartsWith(s, prefix) ==
  /\ Len(prefix) <= Len(s)
  /\ SubSeq(s, 1, Len(prefix)) = prefix

p_root == <<"/">>
p_login == <<"/", "login">>
p_loginx == <<"/", "login", "x">>
p_login_sub == <<"/", "login", "/", "x">>
p_signup == <<"/", "signup">>
p_api_auth == <<"/", "api", "/", "auth">>
p_api_login == <<"/", "api", "/", "auth", "/", "login">>
p_api_register == <<"/", "api", "/", "auth", "/", "register">>
p_api_refresh == <<"/", "api", "/", "auth", "/", "refresh">>
p_api_logout == <<"/", "api", "/", "auth", "/", "logout">>
p_api_github == <<"/", "api", "/", "auth", "/", "github">>
p_api_callback == <<"/", "api", "/", "auth", "/", "github", "/", "callback">>
p_api_test_login == <<"/", "api", "/", "auth", "/", "test-login">>
p_api_health == <<"/", "api", "/", "health">>
p_api_health_sub == <<"/", "api", "/", "health", "/", "x">>
p_dashboard == <<"/", "dashboard">>
p_dashboard_sub == <<"/", "dashboard", "/", "settings">>

PUBLIC_PATHS ==
  { p_root, p_login, p_signup, p_api_login, p_api_register, p_api_refresh,
    p_api_logout, p_api_github, p_api_test_login, p_api_health }

isPublicPath(pathname) ==
  IF pathname = p_root THEN TRUE
  ELSE \E publicPath \in PUBLIC_PATHS :
         /\ publicPath # p_root
         /\ \/ pathname = publicPath
            \/ StartsWith(pathname, Append(publicPath, "/"))

PUBLIC_PATHS_Edge == { p_root, p_login, p_signup }
PUBLIC_PATH_PREFIXES == { Append(p_api_auth, "/"), <<"/", "_next", "/">> }

isPublicPathEdge(pathname) ==
  IF pathname \in PUBLIC_PATHS_Edge THEN TRUE
  ELSE \E prefix \in PUBLIC_PATH_PREFIXES : StartsWith(pathname, prefix)

PUBLIC_PATHS_008 ==
  { p_login, p_signup, p_api_login, p_api_register, p_api_refresh,
    p_api_logout, p_api_github }

isPublicPath008(pathname) ==
  \E publicPath \in PUBLIC_PATHS_008 :
    \/ pathname = publicPath
    \/ StartsWith(pathname, Append(publicPath, "/"))

(***************************************************************************)
(* Responses                                                               *)
(***************************************************************************)
SetCookie(name, value, httpOnly) ==
  [name |-> name, value |-> value, path |-> "/", sameSite |-> "Lax",
   httpOnly |-> httpOnly]

\* What one run of a gate did: its classification of the path, the response
\* (NextResponse.next() or a redirect, with its Set-Cookie headers), the
\* tokens it passed to a verify routine, the calls it made to the refresh
\* endpoint with their result, and the tokens minted on its behalf.
Exec(public, outcome, setCookie, verified, fetches, refresh, minted) ==
  [public |-> public, outcome |-> outcome,
   location |-> IF outcome = "redirect" THEN p_login ELSE <<>>,
   setCookie |-> setCookie, verified |-> verified, fetches |-> fetches,
   refresh |-> refresh, minted |-> minted]

(***************************************************************************)
(* POST /api/auth/refresh                                                  *)
(***************************************************************************)
\* io = "dbfail": prisma.user.findUnique rejects, the handler does not catch
\* it and the framework answers 500.
\* the refresh that does not look at the kind of the token
POST_refresh_anyKind(refreshToken, t, io, us) ==
  LET v == verifyToken(refreshToken, t)
      denied == [status |-> 401, accessToken |-> NoCookie, setCookie |-> <<>>,
                 minted |-> <<>>]
      newAccessToken == generateAccessToken(v.payload.userId, t)
  IN  IF ~Truthy(refreshToken) THEN denied
      ELSE IF ~v.ok THEN denied
      ELSE IF io = "dbfail"
        THEN [status |-> 500, accessToken |-> NoCookie, setCookie |-> <<>>,
              minted |-> <<>>]
      ELSE IF v.payload.userId \notin us THEN denied
      ELSE [status |-> 200, accessToken |-> newAccessToken,
            setCookie |-> <<SetCookie("access_token", newAccessToken, FALSE)>>,
            minted |-> <<newAccessToken>>]

POST_refresh(refreshToken, t, io, us) ==
  LET v == verifyToken(refreshToken, t)
      denied == [status |-> 401, accessToken |-> NoCookie, setCookie |-> <<>>,
                 minted |-> <<>>]
      newAccessToken == generateAccessToken(v.payload.userId, t)
  IN  IF ~Truthy(refreshToken) THEN denied
      ELSE IF ~v.ok THEN denied
      ELSE IF v.payload.type # "refresh" THEN denied
      ELSE IF io = "dbfail"
        THEN [status |-> 500, accessToken |-> NoCookie, setCookie |-> <<>>,
              minted |-> <<>>]
      ELSE IF v.payload.userId \notin us THEN denied
      ELSE [status |-> 200, accessToken |-> newAccessToken,
            setCookie |-> <<SetCookie("access_token", newAccessToken, FALSE)>>,
            minted |-> <<newAccessToken>>]

(***************************************************************************)
(* The route gate, src/src/middleware.ts:27-89                             *)
(***************************************************************************)
\* mutant: the check for a missing access_token is dropped, so that a
\* request without cookies falls into the verification branch
middleware_passesWithoutAccess(pathname, accessToken, refreshToken, t, io, us) ==
  LET r == POST_refresh(refreshToken, t, io, us)
  IN  IF isPublicPath(pathname)
        THEN Exec(TRUE, "next", <<>>, <<>>, 0, "none", <<>>)
      ELSE IF verifyToken(accessToken, t).ok
        THEN Exec(FALSE, "next", <<>>, <<accessToken>>, 0, "none", <<>>)
      ELSE IF ~Truthy(refreshToken)
        THEN Exec(FALSE, "next", <<>>, <<accessToken>>, 0, "none", <<>>)
      ELSE IF io = "throw"
        THEN Exec(FALSE, "next", <<>>, <<accessToken>>, 1, "threw", <<>>)
      ELSE IF r.status # 200
        THEN Exec(FALSE, "next", <<>>, <<accessToken>>, 1, "nonok", r.minted)
      ELSE Exec(FALSE, "next",
                <<SetCookie("access_token", r.accessToken, FALSE)>>,
                <<accessToken>>, 1, "ok", r.minted)

\* mutant: a rejected fetch redirects while a non-success answer still passes
middleware_throwRedirects(pathname, accessToken, refreshToken, t, io, us) ==
  LET r == POST_refresh(refreshToken, t, io, us)
  IN  IF isPublicPath(pathname)
        THEN Exec(TRUE, "next", <<>>, <<>>, 0, "none", <<>>)
      ELSE IF ~Truthy(accessToken)
        THEN Exec(FALSE, "redirect", <<>>, <<>>, 0, "none", <<>>)
      ELSE IF verifyToken(accessToken, t).ok
        THEN Exec(FALSE, "next", <<>>, <<accessToken>>, 0, "none", <<>>)
      ELSE IF ~Truthy(refreshToken)
        THEN Exec(FALSE, "next", <<>>, <<accessToken>>, 0, "none", <<>>)
      ELSE IF io = "throw"
        THEN Exec(FALSE, "redirect", <<>>, <<accessToken>>, 1, "threw", <<>>)
      ELSE IF r.status # 200
        THEN Exec(FALSE, "next", <<>>, <<accessToken>>, 1, "nonok", r.minted)
      ELSE Exec(FALSE, "next",
                <<SetCookie("access_token", r.accessToken, FALSE)>>,
                <<accessToken>>, 1, "ok", r.minted)

\* io = "throw": the fetch of the refresh endpoint rejects.
\* mutant: a refused refresh is asked for once more
middleware_retries(pathname, accessToken, refreshToken, t, io, us) ==
  LET r == POST_refresh(refreshToken, t, io, us)
  IN  IF isPublicPath(pathname)
        THEN Exec(TRUE, "next", <<>>, <<>>, 0, "none", <<>>)
      ELSE IF ~Truthy(accessToken)
        THEN Exec(FALSE, "redirect", <<>>, <<>>, 0, "none", <<>>)
      ELSE IF verifyToken(accessToken, t).ok
        THEN Exec(FALSE, "next", <<>>, <<accessToken>>, 0, "none", <<>>)
      ELSE IF ~Truthy(refreshToken)
        THEN Exec(FALSE, "next", <<>>, <<accessToken>>, 0, "none", <<>>)
      ELSE IF io = "throw"
        THEN Exec(FALSE, "next", <<>>, <<accessToken>>, 1, "threw", <<>>)
      ELSE IF r.status # 200
        THEN Exec(FALSE, "next", <<>>, <<accessToken>>, 2, "nonok", r.minted)
      ELSE Exec(FALSE, "next",
                <<SetCookie("access_token", r.accessToken, FALSE)>>,
                <<accessToken>>, 1, "ok", r.minted)

middleware(pathname, accessToken, refreshToken, t, io, us) ==
  LET r == POST_refresh(refreshToken, t, io, us)
  IN  IF isPublicPath(pathname)
        THEN Exec(TRUE, "next", <<>>, <<>>, 0, "none", <<>>)
      ELSE IF ~Truthy(accessToken)
        THEN Exec(FALSE, "redirect", <<>>, <<>>, 0, "none", <<>>)
      ELSE IF verifyToken(accessToken, t).ok
        THEN Exec(FALSE, "next", <<>>, <<accessToken>>, 0, "none", <<>>)
      ELSE IF ~Truthy(refreshToken)
        THEN Exec(FALSE, "next", <<>>, <<accessToken>>, 0, "none", <<>>)
      ELSE IF io = "throw"
        THEN Exec(FALSE, "next", <<>>, <<accessToken>>, 1, "threw", <<>>)
      ELSE IF r.status # 200
        THEN Exec(FALSE, "next", <<>>, <<accessToken>>, 1, "nonok", r.minted)
      ELSE Exec(FALSE, "next",
                <<SetCookie("access_token", r.accessToken, FALSE)>>,
                <<accessToken>>, 1, "ok", r.minted)

(***************************************************************************)
(* The route gate, src/unnamed/part_008:22-82                              *)
(***************************************************************************)
middleware008(pathname, accessToken, refreshToken, t, io, us) ==
  LET r == POST_refresh(refreshToken, t, io, us)
  IN  IF isPublicPath008(pathname)
        THEN Exec(TRUE, "next", <<>>, <<>>, 0, "none", <<>>)
      ELSE IF ~Truthy(accessToken)
        THEN Exec(FALSE, "redirect", <<>>, <<>>, 0, "none", <<>>)
      ELSE IF verifyToken(accessToken, t).ok
        THEN Exec(FALSE, "next", <<>>, <<accessToken>>, 0, "none", <<>>)
      ELSE IF ~Truthy(refreshToken)
        THEN Exec(FALSE, "redirect", <<>>, <<accessToken>>, 0, "none", <<>>)
      ELSE IF io = "throw"
        THEN Exec(FALSE, "redirect", <<>>, <<accessToken>>, 1, "threw", <<>>)
      ELSE IF r.status # 200
        THEN Exec(FALSE, "redirect", <<>>, <<accessToken>>, 1, "nonok", r.minted)
      ELSE Exec(FALSE, "next",
                <<SetCookie("access_token", r.accessToken, FALSE)>>,
                <<accessToken>>, 1, "ok", r.minted)

(***************************************************************************)
(* The route gate, src/src/middleware.ts:134-187                           *)
(***************************************************************************)
\* mutant: the kind of the verified refresh token is not looked at
middlewareEdge_noKindCheck(pathname, accessToken, refreshToken, t) ==
  LET a == verifyTokenEdge(accessToken, t)
      v == verifyTokenEdge(refreshToken, t)
      newAccessToken == generateAccessTokenEdge(v.payload.userId, t)
      tried == IF Truthy(accessToken) THEN <<accessToken>> ELSE <<>>
  IN  IF isPublicPathEdge(pathname)
        THEN Exec(TRUE, "next", <<>>, <<>>, 0, "none", <<>>)
      ELSE IF Truthy(accessToken) /\ a.ok
        THEN Exec(FALSE, "next", <<>>, <<accessToken>>, 0, "none", <<>>)
      ELSE IF ~Truthy(refreshToken)
        THEN Exec(FALSE, "redirect", <<>>, tried, 0, "none", <<>>)
      ELSE IF ~v.ok
        THEN Exec(FALSE, "redirect", <<>>, Append(tried, refreshToken), 0,
                  "none", <<>>)
      ELSE Exec(FALSE, "next",
                <<SetCookie("access_token", newAccessToken, TRUE)>>,
                Append(tried, refreshToken), 0, "none", <<newAccessToken>>)

\* mutant: a usable refresh token is exchanged even when the access token
\* verified
middlewareEdge_alwaysRefreshes(pathname, accessToken, refreshToken, t) ==
  LET a == verifyTokenEdge(accessToken, t)
      v == verifyTokenEdge(refreshToken, t)
      newAccessToken == generateAccessTokenEdge(v.payload.userId, t)
      tried == IF Truthy(accessToken) THEN <<accessToken>> ELSE <<>>
  IN  IF isPublicPathEdge(pathname)
        THEN Exec(TRUE, "next", <<>>, <<>>, 0, "none", <<>>)
      ELSE IF Truthy(accessToken) /\ a.ok /\ ~(Truthy(refreshToken) /\ v.ok)
        THEN Exec(FALSE, "next", <<>>, <<accessToken>>, 0, "none", <<>>)
      ELSE IF ~Truthy(refreshToken)
        THEN Exec(FALSE, "redirect", <<>>, tried, 0, "none", <<>>)
      ELSE IF ~v.ok
        THEN Exec(FALSE, "redirect", <<>>, Append(tried, refreshToken), 0,
                  "none", <<>>)
      ELSE IF v.payload.type # "refresh"
        THEN Exec(FALSE, "redirect", <<>>, Append(tried, refreshToken), 0,
                  "none", <<>>)
      ELSE Exec(FALSE, "next",
                <<SetCookie("access_token", newAccessToken, TRUE)>>,
                Append(tried, refreshToken), 0, "none", <<newAccessToken>>)

\* mutant: the new access token is dated as the refresh token is
middlewareEdge_mintsAtLogin(pathname, accessToken, refreshToken, t) ==
  LET a == verifyTokenEdge(accessToken, t)
      v == verifyTokenEdge(refreshToken, t)
      newAccessToken == generateAccessTokenEdge(v.payload.userId,
                                               v.payload.iat)
      tried == IF Truthy(accessToken) THEN <<accessToken>> ELSE <<>>
  IN  IF isPublicPathEdge(pathname)
        THEN Exec(TRUE, "next", <<>>, <<>>, 0, "none", <<>>)
      ELSE IF Truthy(accessToken) /\ a.ok
        THEN Exec(FALSE, "next", <<>>, <<accessToken>>, 0, "none", <<>>)
      ELSE IF ~Truthy(refreshToken)
        THEN Exec(FALSE, "redirect", <<>>, tried, 0, "none", <<>>)
      ELSE IF ~v.ok
        THEN Exec(FALSE, "redirect", <<>>, Append(tried, refreshToken), 0,
                  "none", <<>>)
      ELSE IF v.payload.type # "refresh"
        THEN Exec(FALSE, "redirect", <<>>, Append(tried, refreshToken), 0,
                  "none", <<>>)
      ELSE Exec(FALSE, "next",
                <<SetCookie("access_token", newAccessToken, TRUE)>>,
                Append(tried, refreshToken), 0, "none", <<newAccessToken>>)

middlewareEdge(pathname, accessToken, refreshToken, t) ==
  LET a == verifyTokenEdge(accessToken, t)
      v == verifyTokenEdge(refreshToken, t)
      newAccessToken == generateAccessTokenEdge(v.payload.userId, t)
      tried == IF Truthy(accessToken) THEN <<accessToken>> ELSE <<>>
  IN  IF isPublicPathEdge(pathname)
        THEN Exec(TRUE, "next", <<>>, <<>>, 0, "none", <<>>)
      ELSE IF Truthy(accessToken) /\ a.ok
        THEN Exec(FALSE, "next", <<>>, <<accessToken>>, 0, "none", <<>>)
      ELSE IF ~Truthy(refreshToken)
        THEN Exec(FALSE, "redirect", <<>>, tried, 0, "none", <<>>)
      ELSE IF ~v.ok
        THEN Exec(FALSE, "redirect", <<>>, Append(tried, refreshToken), 0,
                  "none", <<>>)
      ELSE IF v.payload.type # "refresh"
        THEN Exec(FALSE, "redirect", <<>>, Append(tried, refreshToken), 0,
                  "none", <<>>)
      ELSE Exec(FALSE, "next",
                <<SetCookie("access_token", newAccessToken, TRUE)>>,
                Append(tried, refreshToken), 0, "none", <<newAccessToken>>)

(***************************************************************************)
(* State machine                                                           *)
(*                                                                         *)
(* jar is the cookie jar of the client; last is the answer of a gate to    *)
(* the most recent request, while the jar and the clock are still what     *)
(* they were when the request was sent.                                    *)
(***************************************************************************)
Paths ==
  { p_root, p_login, p_loginx, p_login_sub, p_api_callback, p_api_health,
    p_dashboard, p_dashboard_sub }

\* what can happen to the call of the refresh endpoint
IO == {"ok", "throw", "dbfail"}

NoExec == Exec(TRUE, "none", <<>>, <<>>, 0, "none", <<>>)

\* twin: what the gate that verifies the refresh token itself answers to
\* the same request, when the request was put to both
Idle ==
  [gate |-> "none", path |-> <<>>, prev |-> "none", exec |-> NoExec,
   twin |-> NoExec]

EmptyJar == [access_token |-> NoCookie, refresh_token |-> NoCookie]

\* An email address is a sequence of chunks, each "@", ".", " " or a run of
\* other characters; a password is the sequence of its characters.  The
\* empty sequence is the empty string, a missing field or null.
e_none == <<>>
e_seed == <<"existing-user", "@", "example", ".", "com">>
e_new == <<"new-user", "@", "example", ".", "com">>
e_padded == <<" ", "new-user", "@", "example", ".", "com">>
e_bad == <<"not-an-email">>

pw_none == <<>>
pw_seed == <<"P", "a", "s", "s", "w", "o", "r", "d", "1", "2", "3", "!">>
pw_good == <<"P", "a", "s", "s", "w", "o", "r", "d", "1">>
pw_nodigit == <<"P", "a", "s", "s", "w", "o", "r", "d">>
pw_weak == <<"a", "b", "c">>

\* bcrypt.hash / bcrypt.compare; a null passwordHash is the empty tuple
hashPassword(password) == <<"$2b$10$", password>>
NoHash == <<>>
comparePassword(password, hash) == hash = hashPassword(password)

\* the columns of a row of the user table; githubId 0 stands for null
Row(email, passwordHash, githubId) ==
  [email |-> email, passwordHash |-> passwordHash, githubId |-> githubId,
   refreshToken |-> "null"]

\* the user seeded with an email and a password
SeedRows == [id \in {"u1"} |-> Row(e_seed, hashPassword(pw_seed), 0)]

\* The answer of an endpoint: status, the fields of the JSON body (error,
\* user, and the tokens it carries, each under its field name), the
\* Set-Cookie headers, the Location of a redirect, the tokens minted and the
\* calls made to the user store, to bcrypt and to GitHub; rev is the
\* revision of the handler that answered, request what the caller sent, at
\* the time of the call, before the user table as the call found it and
\* updated the ids an update of the user table was issued for.
NoResponse ==
  [endpoint |-> "none", rev |-> "", request |-> <<>>, at |-> 0,
   before |-> <<>>, status |-> 0,
   error |-> "",
   user |-> "", bodyTokens |-> {}, setCookie |-> <<>>, location |-> <<>>,
   query |-> "", minted |-> <<>>, calls |-> <<>>, updated |-> {}]

\* the codec bench: the arguments and the time of the latest generate call,
\* the token now held (the minted one, or what was made of it), the token
\* minted by the preceding generate call when that call happened at the same
\* instant, and what verifyToken said about the held token at this instant
NoResult == [ok |-> FALSE, err |-> "none", payload |-> NoPayload]

NoBench ==
  [by |-> "none", subject |-> "", kind |-> "", at |-> 0, held |-> NoCookie,
   prior |-> NoCookie, result |-> NoResult]

\* the password handed to validatePassword, and what it returned
NoPolicy ==
  [password |-> <<>>, validated |-> FALSE,
   result |-> [valid |-> FALSE, errors |-> <<>>]]

\* the requests the server is working on at the same time: each has a slot
\* that tells how far its handler got (pc), what it was sent (rev, request),
\* what it read from the store on its way (seen) and what it answered
MaxInFlight == 2

Reqs == 1..MaxInFlight

FreeSlot ==
  [kind |-> "none", pc |-> "free", rev |-> "", request |-> <<>>,
   seen |-> <<>>, answer |-> <<>>, at |-> 0]

Init ==
  /\ now = 0
  /\ ticks = 0
  /\ users = {"u1"}
  /\ jar = EmptyJar
  /\ last = Idle
  /\ rows = SeedRows
  /\ resp = NoResponse
  /\ codec = NoBench
  /\ pwcheck = NoPolicy
  /\ loggedOut = NoCookie
  /\ flight = [r \in Reqs |-> FreeSlot]

\* the clock advances
Tick ==
  /\ ticks < MaxTicks
  /\ \E d \in {ACCESS_TTL, REFRESH_TTL} : now' = now + d
  /\ ticks' = ticks + 1
  /\ last' = Idle
  /\ resp' = NoResponse
  /\ UNCHANGED <<users, jar, others>>

\* POST /api/auth/test-login outside production with a non-empty userId:
\* both tokens are minted and the client stores the two cookies
POST_test_login ==
  /\ \E userId \in UserIds :
       jar' = [access_token |-> generateAccessToken(userId, now),
               refresh_token |-> generateRefreshToken(userId, now)]
  /\ last' = Idle
  /\ resp' = NoResponse
  /\ UNCHANGED <<now, ticks, users, others>>

Slots == {"access_token", "refresh_token"}

Intact(token) ==
  token.form = "jwt" /\ token.sig = Sign(token.payload, JWT_SECRET)

\* the client (or an attacker holding its cookies) rewrites the jar
ClientDrops ==
  /\ \E slot \in Slots :
       /\ jar[slot] # NoCookie
       /\ jar' = [jar EXCEPT ![slot] = NoCookie]
  /\ last' = Idle
  /\ resp' = NoResponse
  /\ UNCHANGED <<now, ticks, users, others>>

ClientGarbles ==
  /\ \E slot \in Slots, value \in {EmptyValue, Malformed} :
       /\ jar[slot] # value
       /\ jar' = [jar EXCEPT ![slot] = value]
  /\ last' = Idle
  /\ resp' = NoResponse
  /\ UNCHANGED <<now, ticks, users, others>>

ClientTampers ==
  /\ \E slot \in Slots :
       /\ Intact(jar[slot])
       /\ jar' = [jar EXCEPT ![slot] = Tamper(jar[slot])]
  /\ last' = Idle
  /\ resp' = NoResponse
  /\ UNCHANGED <<now, ticks, users, others>>

ClientSwaps ==
  /\ jar.access_token # jar.refresh_token
  /\ jar' = [access_token |-> jar.refresh_token,
             refresh_token |-> jar.access_token]
  /\ last' = Idle
  /\ resp' = NoResponse
  /\ UNCHANGED <<now, ticks, users, others>>

\* the client stores the cookie of the Set-Cookie header of the answer
ClientStores ==
  /\ last.exec.setCookie # <<>>
  /\ jar' = [jar EXCEPT ![last.exec.setCookie[1].name] =
                           last.exec.setCookie[1].value]
  /\ last' = Idle
  /\ resp' = NoResponse
  /\ UNCHANGED <<now, ticks, users, others>>

\* prev: what the same gate answered to the same request just before, with
\* the same cookies at the same clock.  The revisions of the gate are never
\* deployed side by side: between two changes of the cookies or the clock
\* the requests are answered by one revision.
Respond(gate, pathname, exec) ==
  /\ last.gate \in {"none", gate}
  /\ last' = [gate |-> gate, path |-> pathname,
              prev |-> IF last.gate = gate /\ last.path = pathname
                         THEN last.exec.outcome ELSE "none",
              exec |-> exec, twin |-> NoExec]
  /\ UNCHANGED <<now, ticks, users, jar, resp, others>>

Gate ==
  \E pathname \in Paths, io \in IO :
    Respond("middleware", pathname,
            middleware(pathname, jar.access_token, jar.refresh_token, now,
                       io, users))

Gate008 ==
  \E pathname \in Paths, io \in IO :
    Respond("middleware008", pathname,
            middleware008(pathname, jar.access_token, jar.refresh_token, now,
                          io, users))

GateEdge ==
  \E pathname \in Paths :
    Respond("middlewareEdge", pathname,
            middlewareEdge(pathname, jar.access_token, jar.refresh_token, now))

Env ==
  \/ Tick
  \/ POST_test_login
  \/ ClientDrops
  \/ ClientGarbles
  \/ ClientTampers
  \/ ClientSwaps
  \/ ClientStores

Next == Env \/ Gate \/ Gate008 \/ GateEdge

Spec == Init /\ [][Next]_vars

NextEdge == Env \/ GateEdge

SpecEdge == Init /\ [][NextEdge]_vars

NextFetchEdge == Env \/ Gate \/ GateEdge

SpecFetchEdge == Init /\ [][NextFetchEdge]_vars

NextFetch == Env \/ Gate

SpecFetch == Init /\ [][NextFetch]_vars

(***************************************************************************)
(* Vocabulary of the properties                                            *)
(***************************************************************************)
AT == jar.access_token
RT == jar.refresh_token

Handled == last.gate # "none"
Protected == Handled /\ ~last.exec.public
Allowed == last.exec.outcome = "next"
Rejected == last.exec.outcome = "redirect" /\ last.exec.location = p_login

AccessOK == Truthy(AT) /\ jwt_verify(AT, now).ok
AccessFails == Truthy(AT) /\ ~jwt_verify(AT, now).ok
RefreshVerifies == Truthy(RT) /\ jwt_verify(RT, now).ok
RefreshUsable == RefreshVerifies /\ RT.payload.type = "refresh"

\* the answer carries exactly one Set-Cookie, for access_token, whose value
\* is an access token minted now for the subject of the refresh token
NewAccessCookie ==
  /\ Len(last.exec.setCookie) = 1
  /\ last.exec.setCookie[1].name = "access_token"
  /\ LET value == last.exec.setCookie[1].value
     IN  /\ jwt_verify(value, now).ok
         /\ value.payload.type = "access"
         /\ value.payload.userId = RT.payload.userId
         /\ value.payload.iat = now
         /\ last.exec.minted = <<value>>

(***************************************************************************)
(* C1: a protected request whose access_token fails verification and whose  *)
(* refresh_token is present but unusable (it does not verify, the refresh  *)
(* call answers non-success, or the refresh call throws) is redirected to  *)
(* /login, never allowed through.                                          *)
(***************************************************************************)
C1_RefreshFailureRejects ==
  ( /\ Protected
    /\ AccessFails
    /\ Truthy(RT)
    /\ \/ ~jwt_verify(RT, now).ok
       \/ last.exec.refresh \in {"nonok", "threw"} )
  => Rejected

(***************************************************************************)
(* C2: a protected request whose access_token is present but fails         *)
(* verification and that carries no refresh_token is redirected to /login  *)
(* without any refresh attempt.                                            *)
(***************************************************************************)
C2_NoRefreshCookieRejects ==
  (Protected /\ AccessFails /\ RT = NoCookie)
  => (Rejected /\ last.exec.fetches = 0)

(***************************************************************************)
(* C3: the gate answers ALLOW from the access check only when the verified *)
(* token has kind access; a valid refresh token in the access_token cookie *)
(* is not accepted as an access credential.                                *)
(***************************************************************************)
C3_AccessSlotKind ==
  (Protected /\ AccessOK /\ Allowed /\ last.exec.setCookie = <<>>)
  => AT.payload.type = "access"

(***************************************************************************)
(* C4: when the access token does not verify and the refresh_token cookie  *)
(* holds a token that verifies but whose kind is not refresh, the gate     *)
(* redirects to /login and mints no access token.                          *)
(***************************************************************************)
C4_KindConfusionRejected ==
  (Protected /\ ~AccessOK /\ RefreshVerifies /\ RT.payload.type # "refresh")
  => (Rejected /\ last.exec.minted = <<>> /\ last.exec.setCookie = <<>>)

C4_Witness ==
  /\ last.gate = "middlewareEdge"
  /\ Protected
  /\ AccessFails
  /\ RefreshVerifies
  /\ RT.payload.type = "access"
  /\ Rejected

(***************************************************************************)
(* C5: when the access token is expired or invalid and the refresh_token   *)
(* verifies with kind refresh, the request is allowed and the answer       *)
(* carries a Set-Cookie for access_token whose value is a newly minted     *)
(* access token for the subject of the refresh token, different from the   *)
(* access token of the request.                                            *)
(***************************************************************************)
C5_RefreshRecovery ==
  (Protected /\ AccessFails /\ RefreshUsable)
  => (Allowed /\ NewAccessCookie /\ last.exec.setCookie[1].value # AT)

C5_Witness ==
  /\ last.gate = "middlewareEdge"
  /\ Protected
  /\ AT.form = "jwt"
  /\ jwt_verify(AT, now).err = "expired"
  /\ RefreshUsable
  /\ RT.payload.userId = "u2"
  /\ Allowed
  /\ NewAccessCookie

(***************************************************************************)
(* C6: a protected request without access_token cookie is treated like an  *)
(* access-verification failure: with a valid refresh token of kind refresh *)
(* the recovery is performed and the request is allowed with a new access  *)
(* cookie.                                                                 *)
(***************************************************************************)
C6_AbsentAccessRecovers ==
  (Protected /\ ~Truthy(AT) /\ RefreshUsable)
  => (Allowed /\ last.exec.setCookie # <<>>)

(***************************************************************************)
(* C7: a protected request that carries no refresh_token and no (or an     *)
(* empty) access_token is redirected to /login and never passed through.   *)
(***************************************************************************)
C7_NoCookiesRejected ==
  (Protected /\ ~Truthy(AT) /\ RT = NoCookie)
  => (Rejected /\ last.exec.setCookie = <<>>)

C7_Witness ==
  /\ Protected
  /\ last.gate = "middleware"
  /\ AT = EmptyValue
  /\ RT = NoCookie
  /\ Rejected

(***************************************************************************)
(* C8: when the access_token verifies, the request passes through          *)
(* unchanged: no Set-Cookie, no token minted, the refresh_token is not     *)
(* verified and no refresh call is made.                                   *)
(***************************************************************************)
C8_ValidAccessPassThrough ==
  (Protected /\ AccessOK)
  => /\ Allowed
     /\ last.exec.setCookie = <<>>
     /\ last.exec.minted = <<>>
     /\ last.exec.verified = <<AT>>
     /\ last.exec.fetches = 0

C8_Witness ==
  /\ Protected
  /\ last.gate = "middlewareEdge"
  /\ AccessOK
  /\ AT.payload.type = "access"
  /\ RefreshUsable
  /\ Allowed
  /\ last.exec.setCookie = <<>>

(***************************************************************************)
(* C9: a path is public exactly when it equals, or is a sub-path of, /login,*)
(* /signup or an authentication-endpoint prefix, or is the root itself; a  *)
(* public path bypasses every check whatever the cookies; every other path *)
(* (such as /loginx) is protected.                                         *)
(***************************************************************************)
ClaimedPublicPrefixes ==
  { p_login, p_signup, p_api_login, p_api_register, p_api_refresh,
    p_api_logout, p_api_github, p_api_test_login, p_api_health }

ClaimedPublic(pathname) ==
  \/ pathname = p_root
  \/ \E base \in ClaimedPublicPrefixes :
       \/ pathname = base
       \/ StartsWith(pathname, Append(base, "/"))

C9_PathClassification ==
  Handled =>
    /\ last.exec.public <=> ClaimedPublic(last.path)
    /\ last.exec.public =>
         /\ Allowed
         /\ last.exec.verified = <<>>
         /\ last.exec.setCookie = <<>>

Steps == {1, ACCESS_TTL - 1, ACCESS_TTL, REFRESH_TTL - 1, REFRESH_TTL}

Elapse ==
  /\ ticks < MaxTicks
  /\ \E d \in Steps : now' = now + d
  /\ ticks' = ticks + 1
  /\ codec' = [codec EXCEPT !.prior = NoCookie, !.result = NoResult]
  /\ UNCHANGED <<users, jar, last, rows, resp, pwcheck, loggedOut,
               flight>>

\* jsonwebtoken and jose write different headers: only the outputs of the
\* same library are compared as strings
SameLibrary(by1, by2) ==
  (by1 = "generateAccessTokenEdge") = (by2 = "generateAccessTokenEdge")

Minted(by, userId, kind, token) ==
  /\ codec' = [by |-> by, subject |-> userId, kind |-> kind, at |-> now,
               held |-> token,
               prior |-> IF /\ Intact(codec.held)
                            /\ codec.at = now
                            /\ SameLibrary(codec.by, by)
                           THEN codec.held ELSE NoCookie,
               result |-> NoResult]
  /\ UNCHANGED <<now, ticks, users, jar, last, rows, resp, pwcheck,
               loggedOut, flight>>

CallGenerateAccessToken ==
  \E userId \in UserIds :
    Minted("generateAccessToken", userId, "access",
           generateAccessToken(userId, now))

CallGenerateRefreshToken ==
  \E userId \in UserIds :
    Minted("generateRefreshToken", userId, "refresh",
           generateRefreshToken(userId, now))

CallGenerateAccessTokenEdge ==
  \E userId \in UserIds :
    Minted("generateAccessTokenEdge", userId, "access",
           generateAccessTokenEdge(userId, now))

\* what the tests hand to verifyToken instead of a minted token
Damaged(token) ==
  {EmptyValue, Malformed} \cup
  (IF Intact(token) THEN {TamperSig(token), Tamper(token)} ELSE {})

Corrupt ==
  /\ \E value \in Damaged(codec.held) :
       /\ value # codec.held
       /\ codec' = [codec EXCEPT !.held = value, !.prior = NoCookie,
                                 !.result = NoResult]
  /\ UNCHANGED <<now, ticks, users, jar, last, rows, resp, pwcheck,
               loggedOut, flight>>

CallVerifyToken ==
  /\ codec.held # NoCookie
  /\ codec' = [codec EXCEPT !.result = verifyToken(codec.held, now)]
  /\ UNCHANGED <<now, ticks, users, jar, last, rows, resp, pwcheck,
               loggedOut, flight>>

NextCodec ==
  \/ Elapse
  \/ CallGenerateAccessToken
  \/ CallGenerateRefreshToken
  \/ CallGenerateAccessTokenEdge
  \/ Corrupt
  \/ CallVerifyToken

SpecCodec == Init /\ [][NextCodec]_vars

\* verifyToken was applied to the held token at this instant
Verified == codec.result # NoResult
\* the held token is the minted string, untouched
Untouched == Intact(codec.held)
Fresh == Untouched /\ codec.at = now

(***************************************************************************)
(* C11: for every subject id S, verifying a freshly minted access token    *)
(* returns subject id S and kind access, and verifying a freshly minted    *)
(* refresh token returns subject id S and kind refresh.                    *)
(***************************************************************************)
C11_RoundTrip ==
  (Verified /\ Fresh)
  => /\ codec.result.ok
     /\ codec.result.payload.userId = codec.subject
     /\ codec.result.payload.type = codec.kind

C11_Witness ==
  /\ Verified
  /\ Fresh
  /\ codec.by = "generateRefreshToken"
  /\ codec.subject = "u2"
  /\ codec.at > 0
  /\ codec.result.payload.type = "refresh"

(***************************************************************************)
(* C12: for every minted access token expiresAt minus issuedAt is exactly  *)
(* 900 seconds and for every minted refresh token exactly 604800 seconds,  *)
(* issuedAt being the instant of the call; this holds for the access token *)
(* minted by the gate's inline refresh path as well as for the codec.      *)
(***************************************************************************)
C12_Lifetime ==
  Untouched
  => /\ codec.held.payload.iat = codec.at
     /\ codec.kind = "access"
          => codec.held.payload.exp - codec.held.payload.iat = 900
     /\ codec.kind = "refresh"
          => codec.held.payload.exp - codec.held.payload.iat = 604800

C12_Witness ==
  /\ Untouched
  /\ codec.by = "generateAccessTokenEdge"
  /\ codec.at > 0
  /\ codec.held.payload.exp = codec.at + 900

(***************************************************************************)
(* C13: verifyToken fails for the empty string, for a structurally         *)
(* malformed string and for a token obtained from a valid token by         *)
(* altering its signature segment; it never returns a payload for such     *)
(* input.                                                                  *)
(***************************************************************************)
\* the signature segment was made for this payload and then altered
SignatureAltered ==
  /\ codec.held.form = "jwt"
  /\ codec.held.sig.over = codec.held.payload
  /\ codec.held.sig.key # JWT_SECRET

C13_RejectsNonAuthentic ==
  (Verified /\ (codec.held \in {EmptyValue, Malformed} \/ SignatureAltered))
  => /\ ~codec.result.ok
     /\ codec.result.err \in {"required", "invalid"}
     /\ codec.result.payload = NoPayload

C13_Witness ==
  /\ Verified
  /\ SignatureAltered
  /\ codec.at = now
  /\ codec.kind = "refresh"
  /\ codec.result.err = "invalid"

(***************************************************************************)
(* C14 as stated: a token minted at time t with lifetime L is accepted by  *)
(* verifyToken at every time now with now <= t + L and fails with the      *)
(* expired error exactly when expiresAt < now.                             *)
(***************************************************************************)
C14_ExpiryAsStated ==
  (Verified /\ Untouched)
  => /\ now <= codec.held.payload.exp => codec.result.ok
     /\ codec.result.err = "expired" <=> codec.held.payload.exp < now

(***************************************************************************)
(* C14 amended: a token minted at time t with lifetime L is accepted by    *)
(* verifyToken at every time now with now < t + L and fails with the       *)
(* expired error exactly when expiresAt <= now; the expired failure is     *)
(* distinguishable from the failure for an empty, malformed or altered     *)
(* token, which is never reported as expired.                              *)
(***************************************************************************)
C14_Expiry ==
  /\ (Verified /\ Untouched)
     => /\ codec.result.ok <=> now < codec.at + (IF codec.kind = "access"
                                                   THEN 900 ELSE 604800)
        /\ codec.result.err = "expired" <=> codec.held.payload.exp <= now
        /\ codec.result.ok \/ codec.result.err = "expired"
  /\ (Verified /\ ~Untouched) => codec.result.err \in {"required", "invalid"}

C14_Witness ==
  /\ Verified
  /\ Untouched
  /\ codec.at > 0
  /\ now = codec.held.payload.exp
  /\ codec.result.err = "expired"

(***************************************************************************)
(* C15: two tokens minted at the same instant are never equal, whether     *)
(* they are minted for the same subject (in particular an access token and *)
(* a refresh token for the same subject differ) or for different subjects. *)
(***************************************************************************)
C15_Unique ==
  (Untouched /\ codec.prior # NoCookie) => codec.held # codec.prior

(***************************************************************************)
(* POST /api/auth/login, src/src/app/api/auth/login/route.ts:6-103         *)
(***************************************************************************)
\* NextResponse.json({ error }, { status }) after the given calls
Failure(endpoint, status, error, calls) ==
  [NoResponse EXCEPT !.endpoint = endpoint, !.status = status,
                     !.error = error, !.calls = calls]

\* prisma.user.findUnique({ where: { email } }): the ids of the rows found
findUnique(rs, email) == {id \in DOMAIN rs : rs[id].email = email}

BodyKinds == {"json", "empty", "garbage"}

\* mutant: the result of bcrypt.compare is ignored
POST_login_anyPassword(bodyKind, email, password, t, io, rs) ==
  LET found == findUnique(rs, email)
      id == CHOOSE i \in found : TRUE
      accessToken == generateAccessToken(id, t)
      refreshToken == generateRefreshToken(id, t)
      granted == /\ bodyKind = "json"
                 /\ email # e_none
                 /\ password # pw_none
                 /\ io = "ok"
                 /\ found # {}
                 /\ rs[id].passwordHash # NoHash
  IN  IF ~granted THEN Failure("login", 401, "email or password is not correct", <<>>)
      ELSE [NoResponse EXCEPT
              !.endpoint = "login",
              !.status = 200,
              !.user = id,
              !.bodyTokens = {[field |-> "accessToken", value |-> accessToken]},
              !.setCookie = << SetCookie("access_token", accessToken, FALSE),
                               SetCookie("refresh_token", refreshToken, TRUE) >>,
              !.minted = <<accessToken, refreshToken>>,
              !.calls = <<"findUnique", "compare">>]

\* mutant: a successful login also returns the refresh token in its body
POST_login_refreshInBody(bodyKind, email, password, t, io, rs) ==
  LET found == findUnique(rs, email)
      id == CHOOSE i \in found : TRUE
      accessToken == generateAccessToken(id, t)
      refreshToken == generateRefreshToken(id, t)
      granted == /\ bodyKind = "json"
                 /\ email # e_none
                 /\ password # pw_none
                 /\ io = "ok"
                 /\ found # {}
                 /\ comparePassword(password, rs[id].passwordHash)
  IN  IF ~granted THEN Failure("login", 401, "email or password is not correct", <<>>)
      ELSE [NoResponse EXCEPT
              !.endpoint = "login",
              !.status = 200,
              !.user = id,
              !.bodyTokens = {[field |-> "accessToken", value |-> accessToken],
                              [field |-> "refreshToken", value |-> refreshToken]},
              !.setCookie = << SetCookie("access_token", accessToken, FALSE),
                               SetCookie("refresh_token", refreshToken, TRUE) >>,
              !.minted = <<accessToken, refreshToken>>,
              !.calls = <<"findUnique", "compare">>]

\* io = "dbfail": the query rejects; the handler has no catch around it and
\* the framework answers 500
\* the login that hands a null hash to the comparison
POST_login_comparesNullHash(bodyKind, email, password, t, io, rs) ==
  LET found == findUnique(rs, email)
      id == CHOOSE i \in found : TRUE
      accessToken == generateAccessToken(id, t)
      refreshToken == generateRefreshToken(id, t)
      generic == "email or password is not correct"
  IN  IF bodyKind = "empty"
        THEN Failure("login", 400, "request body is empty", <<>>)
      ELSE IF bodyKind = "garbage"
        THEN Failure("login", 400, "not valid JSON", <<>>)
      ELSE IF email = e_none
        THEN Failure("login", 400, "email is required", <<>>)
      ELSE IF password = pw_none
        THEN Failure("login", 400, "password is required", <<>>)
      ELSE IF io = "dbfail"
        THEN Failure("login", 500, "", <<"findUnique">>)
      ELSE IF found = {}
        THEN Failure("login", 401, generic, <<"findUnique">>)
      ELSE IF ~comparePassword(password, rs[id].passwordHash)
        THEN Failure("login", 401, generic, <<"findUnique", "compare">>)
      ELSE [NoResponse EXCEPT
              !.endpoint = "login",
              !.status = 200,
              !.user = id,
              !.bodyTokens = {[field |-> "accessToken", value |-> accessToken]},
              !.setCookie = << SetCookie("access_token", accessToken, FALSE),
                               SetCookie("refresh_token", refreshToken, TRUE) >>,
              !.minted = <<accessToken, refreshToken>>,
              !.calls = <<"findUnique", "compare">>]

POST_login(bodyKind, email, password, t, io, rs) ==
  LET found == findUnique(rs, email)
      id == CHOOSE i \in found : TRUE
      accessToken == generateAccessToken(id, t)
      refreshToken == generateRefreshToken(id, t)
      generic == "email or password is not correct"
  IN  IF bodyKind = "empty"
        THEN Failure("login", 400, "request body is empty", <<>>)
      ELSE IF bodyKind = "garbage"
        THEN Failure("login", 400, "not valid JSON", <<>>)
      ELSE IF email = e_none
        THEN Failure("login", 400, "email is required", <<>>)
      ELSE IF password = pw_none
        THEN Failure("login", 400, "password is required", <<>>)
      ELSE IF io = "dbfail"
        THEN Failure("login", 500, "", <<"findUnique">>)
      ELSE IF found = {}
        THEN Failure("login", 401, generic, <<"findUnique">>)
      ELSE IF rs[id].passwordHash = NoHash
        THEN Failure("login", 401, "this account is for social login only",
                     <<"findUnique">>)
      ELSE IF ~comparePassword(password, rs[id].passwordHash)
        THEN Failure("login", 401, generic, <<"findUnique", "compare">>)
      ELSE [NoResponse EXCEPT
              !.endpoint = "login",
              !.status = 200,
              !.user = id,
              !.bodyTokens = {[field |-> "accessToken", value |-> accessToken]},
              !.setCookie = << SetCookie("access_token", accessToken, FALSE),
                               SetCookie("refresh_token", refreshToken, TRUE) >>,
              !.minted = <<accessToken, refreshToken>>,
              !.calls = <<"findUnique", "compare">>]

(***************************************************************************)
(* POST /api/auth/register, three revisions:                               *)
(*   r1  src/src/app/api/auth/test-login/route.ts:101-195                  *)
(*   r2  src/src/app/api/auth/test-login/route.ts:248-365                  *)
(*   r3  src/src/app/api/auth/test-login/route.ts:374-467                  *)
(***************************************************************************)
\* String.prototype.trim on a sequence of chunks
trim(str) ==
  LET solid == {i \in 1..Len(str) : str[i] # " "}
      first == CHOOSE i \in solid : \A j \in solid : i <= j
      final == CHOOSE i \in solid : \A j \in solid : j <= i
  IN  IF solid = {} THEN <<>> ELSE SubSeq(str, first, final)

\* /^[^\s@]+@[^\s@]+\.[^\s@]+$/.test(email)
EMAIL_REGEX_test(email) ==
  \E i, j \in 1..Len(email) :
    /\ email[i] = "@"
    /\ email[j] = "."
    /\ 1 < i
    /\ i + 1 < j
    /\ j < Len(email)
    /\ \A k \in 1..Len(email) :
         /\ email[k] # " "
         /\ email[k] = "@" => k = i

\* validateEmail of r1 and r2: the error, or "" for null
validateEmail(email) ==
  IF trim(email) = <<>> THEN "email is required"
  ELSE IF ~EMAIL_REGEX_test(email) THEN "email format is not valid"
  ELSE ""

UPPERCASE ==
  {"A", "B", "C", "D", "E", "F", "G", "H", "I", "J", "K", "L", "M", "N", "O",
   "P", "Q", "R", "S", "T", "U", "V", "W", "X", "Y", "Z"}
LOWERCASE ==
  {"a", "b", "c", "d", "e", "f", "g", "h", "i", "j", "k", "l", "m", "n", "o",
   "p", "q", "r", "s", "t", "u", "v", "w", "x", "y", "z"}
DIGITS == {"0", "1", "2", "3", "4", "5", "6", "7", "8", "9"}

Contains(password, class) == \E i \in 1..Len(password) : password[i] \in class

MIN_PASSWORD_LENGTH == 8

\* validatePassword of r1 and r2: the first error, or "" for null
validatePasswordInline(password) ==
  IF trim(password) = <<>> THEN "password is required"
  ELSE IF Len(password) < MIN_PASSWORD_LENGTH THEN "password: 8 characters or more"
  ELSE IF ~Contains(password, UPPERCASE) THEN "password: uppercase required"
  ELSE IF ~Contains(password, LOWERCASE) THEN "password: lowercase required"
  ELSE IF ~Contains(password, DIGITS) THEN "password: digit required"
  ELSE ""

\* a validatePassword that returns at the first violated rule
validatePassword_firstErrorOnly(password) ==
  LET errors ==
        IF Len(password) < MIN_PASSWORD_LENGTH
          THEN <<"password: 8 characters or more">>
        ELSE IF ~Contains(password, UPPERCASE)
          THEN <<"password: uppercase required">>
        ELSE IF ~Contains(password, LOWERCASE)
          THEN <<"password: lowercase required">>
        ELSE IF ~Contains(password, DIGITS)
          THEN <<"password: digit required">>
        ELSE <<>>
  IN  [valid |-> errors = <<>>, errors |-> errors]

\* validatePassword of src/unnamed/part_006:17-40: every violated rule
validatePassword(password) ==
  LET errors ==
        (IF Len(password) < MIN_PASSWORD_LENGTH
           THEN <<"password: 8 characters or more">> ELSE <<>>)
        \o (IF ~Contains(password, UPPERCASE)
              THEN <<"password: uppercase required">> ELSE <<>>)
        \o (IF ~Contains(password, LOWERCASE)
              THEN <<"password: lowercase required">> ELSE <<>>)
        \o (IF ~Contains(password, DIGITS)
              THEN <<"password: digit required">> ELSE <<>>)
  IN  [valid |-> errors = <<>>, errors |-> errors]

\* the id prisma gives to a new row
NewId(rs) ==
  IF UserIds \subseteq DOMAIN rs THEN "none"
  ELSE CHOOSE id \in UserIds : id \notin DOMAIN rs

\* prisma.user.create({ data })
create(rs, row) == [id \in DOMAIN rs \cup {NewId(rs)} |->
                      IF id \in DOMAIN rs THEN rs[id] ELSE row]

Revisions == {"r1", "r2", "r3"}

\* io: "findfail" the findUnique query rejects, "createfail" the create
\* query rejects.  The result is the answer and the table afterwards.
\* the register that stores the password as it was sent
POST_register_storesPlaintext(rev, bodyKind, email, password, t, io, rs) ==
  LET Fail(status, error, calls) ==
        [answer |-> Failure("register", status, error, calls), rows |-> rs]
      address == IF rev = "r3" THEN trim(email) ELSE email
      id == NewId(rs)
      accessToken == generateAccessToken(id, t)
      refreshToken == generateRefreshToken(id, t)
      policy == validatePassword(password)
      created ==
        [NoResponse EXCEPT
           !.endpoint = "register",
           !.status = 201,
           !.user = IF rev = "r3" THEN "" ELSE id,
           !.bodyTokens = {[field |-> "accessToken", value |-> accessToken]},
           !.setCookie =
              << [SetCookie("refresh_token", refreshToken, TRUE) EXCEPT
                    !.sameSite = IF rev = "r3" THEN "Strict" ELSE "Lax"] >>,
           !.minted = <<accessToken, refreshToken>>,
           !.calls = <<"findUnique", "hash", "create">>]
  IN  IF bodyKind = "empty"
        THEN Fail(400, IF rev = "r3" THEN "cannot parse the request body"
                                     ELSE "request body is empty", <<>>)
      ELSE IF bodyKind = "garbage"
        THEN Fail(400, IF rev = "r3" THEN "cannot parse the request body"
                                     ELSE "not valid JSON", <<>>)
      ELSE IF email = e_none THEN Fail(400, "email is required", <<>>)
      ELSE IF rev # "r3" /\ validateEmail(email) # ""
        THEN Fail(400, validateEmail(email), <<>>)
      ELSE IF password = pw_none THEN Fail(400, "password is required", <<>>)
      ELSE IF rev = "r3" /\ ~EMAIL_REGEX_test(trim(email))
        THEN Fail(400, "email format is not valid", <<>>)
      ELSE IF rev # "r3" /\ validatePasswordInline(password) # ""
        THEN Fail(400, validatePasswordInline(password), <<>>)
      ELSE IF rev = "r3" /\ ~policy.valid
        THEN Fail(422, policy.errors[1], <<>>)
      ELSE IF io = "findfail"
        THEN Fail(500, IF rev = "r1" THEN "" ELSE "server error",
                  <<"findUnique">>)
      ELSE IF findUnique(rs, address) # {}
        THEN Fail(409, "email is already in use", <<"findUnique">>)
      ELSE IF io = "createfail"
        THEN Fail(500, IF rev = "r1" THEN "" ELSE "server error",
                  <<"findUnique", "hash", "create">>)
      ELSE [answer |-> created,
            rows |-> create(rs, Row(address, password, 0))]

POST_register(rev, bodyKind, email, password, t, io, rs) ==
  LET Fail(status, error, calls) ==
        [answer |-> Failure("register", status, error, calls), rows |-> rs]
      address == IF rev = "r3" THEN trim(email) ELSE email
      id == NewId(rs)
      accessToken == generateAccessToken(id, t)
      refreshToken == generateRefreshToken(id, t)
      policy == validatePassword(password)
      created ==
        [NoResponse EXCEPT
           !.endpoint = "register",
           !.status = 201,
           !.user = IF rev = "r3" THEN "" ELSE id,
           !.bodyTokens = {[field |-> "accessToken", value |-> accessToken]},
           !.setCookie =
              << [SetCookie("refresh_token", refreshToken, TRUE) EXCEPT
                    !.sameSite = IF rev = "r3" THEN "Strict" ELSE "Lax"] >>,
           !.minted = <<accessToken, refreshToken>>,
           !.calls = <<"findUnique", "hash", "create">>]
  IN  IF bodyKind = "empty"
        THEN Fail(400, IF rev = "r3" THEN "cannot parse the request body"
                                     ELSE "request body is empty", <<>>)
      ELSE IF bodyKind = "garbage"
        THEN Fail(400, IF rev = "r3" THEN "cannot parse the request body"
                                     ELSE "not valid JSON", <<>>)
      ELSE IF email = e_none THEN Fail(400, "email is required", <<>>)
      ELSE IF rev # "r3" /\ validateEmail(email) # ""
        THEN Fail(400, validateEmail(email), <<>>)
      ELSE IF password = pw_none THEN Fail(400, "password is required", <<>>)
      ELSE IF rev = "r3" /\ ~EMAIL_REGEX_test(trim(email))
        THEN Fail(400, "email format is not valid", <<>>)
      ELSE IF rev # "r3" /\ validatePasswordInline(password) # ""
        THEN Fail(400, validatePasswordInline(password), <<>>)
      ELSE IF rev = "r3" /\ ~policy.valid
        THEN Fail(422, policy.errors[1], <<>>)
      ELSE IF io = "findfail"
        THEN Fail(500, IF rev = "r1" THEN "" ELSE "server error",
                  <<"findUnique">>)
      ELSE IF findUnique(rs, address) # {}
        THEN Fail(409, "email is already in use", <<"findUnique">>)
      ELSE IF io = "createfail"
        THEN Fail(500, IF rev = "r1" THEN "" ELSE "server error",
                  <<"findUnique", "hash", "create">>)
      ELSE [answer |-> created,
            rows |-> create(rs, Row(address, hashPassword(password), 0))]

(***************************************************************************)
(* GET /api/auth/github/callback, two revisions:                           *)
(*   a  src/src/app/api/auth/github/callback/route.ts:16-118               *)
(*   b  src/src/app/api/auth/login/route.ts:126-232                        *)
(***************************************************************************)
GITHUB_ID == 9000001

\* the profile GitHub returns: its email is null, new, or that of the seed
Profiles == {[id |-> GITHUB_ID, email |-> e] : e \in {e_none, e_new, e_seed}}

\* what happens on the way to the profile
Chains == {"ok", "exchange_nonok", "no_token", "profile_nonok", "network"}

\* the value of the code parameter: missing, blank, or a code
Codes == {"", " ", "c0de"}

TEMPORARY_REDIRECT == 307
FOUND == 302

Redirect(rev, location, query, calls) ==
  [NoResponse EXCEPT
     !.endpoint = "callback",
     !.status = IF rev = "a" THEN TEMPORARY_REDIRECT ELSE FOUND,
     !.location = location,
     !.query = query,
     !.calls = calls]

\* rows with the given githubId
findByGithubId(rs, githubId) == {id \in DOMAIN rs : rs[id].githubId = githubId}

\* the unique index on email rejects a second row with the same address
EmailTaken(rs, id, email) ==
  email # e_none /\ \E other \in DOMAIN rs : other # id /\ rs[other].email = email

\* the callback that calls the token exchange before it looks at the code
GET_callback_exchangesFirst(rev, code, chain, profile, t, io, rs) ==
  LET Back(query, calls) ==
        [answer |-> Redirect(rev, p_login, IF rev = "a" THEN query ELSE "", calls),
         rows |-> rs]
      known == findByGithubId(rs, profile.id)
      id == IF known # {} THEN CHOOSE i \in known : TRUE ELSE NewId(rs)
      throws == io = "dbfail" \/ EmailTaken(rs, id, profile.email)
      upserted ==
        IF known # {} THEN [rs EXCEPT ![id].email = profile.email]
        ELSE create(rs, Row(profile.email, NoHash, profile.id))
      accessToken == generateAccessToken(id, t)
      refreshToken == generateRefreshToken(id, t)
  IN  IF code = "" \/ (rev = "b" /\ code = " ")
        THEN Back("error=missing_code", <<"exchange">>)
      ELSE IF chain = "network"
        THEN Back("error=github_auth_failed", <<"exchange">>)
      ELSE IF chain \in {"exchange_nonok", "no_token"}
        THEN Back("error=github_auth_failed", <<"exchange">>)
      ELSE IF chain = "profile_nonok"
        THEN Back("error=github_auth_failed", <<"exchange", "profile">>)
      ELSE IF throws /\ rev = "a"
        THEN Back("error=github_auth_failed", <<"exchange", "profile", "upsert">>)
      ELSE IF throws
        THEN [answer |-> Failure("callback", 500, "",
                                 <<"exchange", "profile", "upsert">>),
              rows |-> rs]
      ELSE [answer |->
              [Redirect(rev, p_dashboard, "", <<"exchange", "profile", "upsert">>)
                 EXCEPT
                   !.setCookie =
                      << SetCookie("access_token", accessToken, rev = "b"),
                         SetCookie("refresh_token", refreshToken, TRUE) >>,
                   !.minted = <<accessToken, refreshToken>>],
            rows |-> upserted]

\* the callback that asks for the profile with the token it did not get
GET_callback_profileRegardless(rev, code, chain, profile, t, io, rs) ==
  LET Back(query, calls) ==
        [answer |-> Redirect(rev, p_login, IF rev = "a" THEN query ELSE "", calls),
         rows |-> rs]
      known == findByGithubId(rs, profile.id)
      id == IF known # {} THEN CHOOSE i \in known : TRUE ELSE NewId(rs)
      throws == io = "dbfail" \/ EmailTaken(rs, id, profile.email)
      upserted ==
        IF known # {} THEN [rs EXCEPT ![id].email = profile.email]
        ELSE create(rs, Row(profile.email, NoHash, profile.id))
      accessToken == generateAccessToken(id, t)
      refreshToken == generateRefreshToken(id, t)
  IN  IF code = "" \/ (rev = "b" /\ code = " ")
        THEN Back("error=missing_code", <<>>)
      ELSE IF chain = "network"
        THEN Back("error=github_auth_failed", <<"exchange">>)
      ELSE IF chain = "exchange_nonok"
        THEN Back("error=github_auth_failed", <<"exchange">>)
      ELSE IF chain = "no_token"
        THEN Back("error=github_auth_failed", <<"exchange", "profile">>)
      ELSE IF chain = "profile_nonok"
        THEN Back("error=github_auth_failed", <<"exchange", "profile">>)
      ELSE IF throws /\ rev = "a"
        THEN Back("error=github_auth_failed", <<"exchange", "profile", "upsert">>)
      ELSE IF throws
        THEN [answer |-> Failure("callback", 500, "",
                                 <<"exchange", "profile", "upsert">>),
              rows |-> rs]
      ELSE [answer |->
              [Redirect(rev, p_dashboard, "", <<"exchange", "profile", "upsert">>)
                 EXCEPT
                   !.setCookie =
                      << SetCookie("access_token", accessToken, rev = "b"),
                         SetCookie("refresh_token", refreshToken, TRUE) >>,
                   !.minted = <<accessToken, refreshToken>>],
            rows |-> upserted]

\* the callback whose upsert leaves an existing row as it is
GET_callback_keepsProfile(rev, code, chain, profile, t, io, rs) ==
  LET Back(query, calls) ==
        [answer |-> Redirect(rev, p_login, IF rev = "a" THEN query ELSE "", calls),
         rows |-> rs]
      known == findByGithubId(rs, profile.id)
      id == IF known # {} THEN CHOOSE i \in known : TRUE ELSE NewId(rs)
      throws == io = "dbfail" \/ EmailTaken(rs, id, profile.email)
      upserted ==
        IF known # {} THEN rs
        ELSE create(rs, Row(profile.email, NoHash, profile.id))
      accessToken == generateAccessToken(id, t)
      refreshToken == generateRefreshToken(id, t)
  IN  IF code = "" \/ (rev = "b" /\ code = " ")
        THEN Back("error=missing_code", <<>>)
      ELSE IF chain = "network"
        THEN Back("error=github_auth_failed", <<"exchange">>)
      ELSE IF chain \in {"exchange_nonok", "no_token"}
        THEN Back("error=github_auth_failed", <<"exchange">>)
      ELSE IF chain = "profile_nonok"
        THEN Back("error=github_auth_failed", <<"exchange", "profile">>)
      ELSE IF throws /\ rev = "a"
        THEN Back("error=github_auth_failed", <<"exchange", "profile", "upsert">>)
      ELSE IF throws
        THEN [answer |-> Failure("callback", 500, "",
                                 <<"exchange", "profile", "upsert">>),
              rows |-> rs]
      ELSE [answer |->
              [Redirect(rev, p_dashboard, "", <<"exchange", "profile", "upsert">>)
                 EXCEPT
                   !.setCookie =
                      << SetCookie("access_token", accessToken, rev = "b"),
                         SetCookie("refresh_token", refreshToken, TRUE) >>,
                   !.minted = <<accessToken, refreshToken>>],
            rows |-> upserted]

GET_callback(rev, code, chain, profile, t, io, rs) ==
  LET Back(query, calls) ==
        [answer |-> Redirect(rev, p_login, IF rev = "a" THEN query ELSE "", calls),
         rows |-> rs]
      known == findByGithubId(rs, profile.id)
      id == IF known # {} THEN CHOOSE i \in known : TRUE ELSE NewId(rs)
      throws == io = "dbfail" \/ EmailTaken(rs, id, profile.email)
      upserted ==
        IF known # {} THEN [rs EXCEPT ![id].email = profile.email]
        ELSE create(rs, Row(profile.email, NoHash, profile.id))
      accessToken == generateAccessToken(id, t)
      refreshToken == generateRefreshToken(id, t)
  IN  IF code = "" \/ (rev = "b" /\ code = " ")
        THEN Back("error=missing_code", <<>>)
      ELSE IF chain = "network"
        THEN Back("error=github_auth_failed", <<"exchange">>)
      ELSE IF chain \in {"exchange_nonok", "no_token"}
        THEN Back("error=github_auth_failed", <<"exchange">>)
      ELSE IF chain = "profile_nonok"
        THEN Back("error=github_auth_failed", <<"exchange", "profile">>)
      ELSE IF throws /\ rev = "a"
        THEN Back("error=github_auth_failed", <<"exchange", "profile", "upsert">>)
      ELSE IF throws
        THEN [answer |-> Failure("callback", 500, "",
                                 <<"exchange", "profile", "upsert">>),
              rows |-> rs]
      ELSE [answer |->
              [Redirect(rev, p_dashboard, "", <<"exchange", "profile", "upsert">>)
                 EXCEPT
                   !.setCookie =
                      << SetCookie("access_token", accessToken, rev = "b"),
                         SetCookie("refresh_token", refreshToken, TRUE) >>,
                   !.minted = <<accessToken, refreshToken>>],
            rows |-> upserted]

(***************************************************************************)
(* POST /api/auth/test-login, src/src/app/api/auth/test-login/route.ts:4-62*)
(***************************************************************************)
NodeEnvs == {"production", "test"}

\* the test-login that parses the body before it looks at the environment
POST_testLogin_parsesFirst(nodeEnv, bodyKind, userId, t) ==
  LET accessToken == generateAccessToken(userId, t)
      refreshToken == generateRefreshToken(userId, t)
  IN  IF bodyKind = "empty"
        THEN Failure("test-login", 400, "request body is empty", <<>>)
      ELSE IF bodyKind = "garbage"
        THEN Failure("test-login", 400, "not valid JSON", <<>>)
      ELSE IF nodeEnv = "production"
        THEN Failure("test-login", 404, "not available in production", <<>>)
      ELSE IF userId = ""
        THEN Failure("test-login", 400, "userId is required", <<>>)
      ELSE [NoResponse EXCEPT
              !.endpoint = "test-login",
              !.status = 200,
              !.bodyTokens = {[field |-> "accessToken", value |-> accessToken]},
              !.setCookie = << SetCookie("access_token", accessToken, FALSE),
                               SetCookie("refresh_token", refreshToken, TRUE) >>,
              !.minted = <<accessToken, refreshToken>>]

\* userId "" stands for a userId that is missing, not a string, or empty
POST_testLogin(nodeEnv, bodyKind, userId, t) ==
  LET accessToken == generateAccessToken(userId, t)
      refreshToken == generateRefreshToken(userId, t)
  IN  IF nodeEnv = "production"
        THEN Failure("test-login", 404, "not available in production", <<>>)
      ELSE IF bodyKind = "empty"
        THEN Failure("test-login", 400, "request body is empty", <<>>)
      ELSE IF bodyKind = "garbage"
        THEN Failure("test-login", 400, "not valid JSON", <<>>)
      ELSE IF userId = ""
        THEN Failure("test-login", 400, "userId is required", <<>>)
      ELSE [NoResponse EXCEPT
              !.endpoint = "test-login",
              !.status = 200,
              !.bodyTokens = {[field |-> "accessToken", value |-> accessToken]},
              !.setCookie = << SetCookie("access_token", accessToken, FALSE),
                               SetCookie("refresh_token", refreshToken, TRUE) >>,
              !.minted = <<accessToken, refreshToken>>]

(***************************************************************************)
(* POST /api/auth/refresh as an endpoint of its own                        *)
(***************************************************************************)
RefreshAnswer(refreshToken, t, io, us) ==
  LET r == POST_refresh(refreshToken, t, io, us)
  IN  [NoResponse EXCEPT
         !.endpoint = "refresh",
         !.status = r.status,
         !.error = IF r.status = 200 THEN "" ELSE "refresh refused",
         !.bodyTokens = IF r.status = 200
                          THEN {[field |-> "accessToken", value |-> r.accessToken]}
                          ELSE {},
         !.setCookie = r.setCookie,
         !.minted = r.minted]

(***************************************************************************)
(* POST /api/auth/logout, src/src/app/api/auth/logout/route.ts:5-42        *)
(***************************************************************************)
\* a Set-Cookie with an empty value and Expires at the epoch
ClearCookie(name, httpOnly) ==
  [name |-> name, value |-> EmptyValue, path |-> "/", sameSite |-> "Lax",
   httpOnly |-> httpOnly, expires |-> "Thu, 01 Jan 1970 00:00:00 GMT"]

\* the logout that lets a failed update reach the caller
POST_logout_failsOnStoreError(refreshToken, t, io, rs) ==
  LET v == verifyToken(refreshToken, t)
      updates == Truthy(refreshToken) /\ v.ok
      written == updates /\ io = "ok" /\ v.payload.userId \in DOMAIN rs
  IN  [answer |->
         [NoResponse EXCEPT
            !.endpoint = "logout",
            !.status = IF updates /\ ~written THEN 500 ELSE 200,
            !.setCookie = IF updates /\ ~written
                            THEN <<>>
                            ELSE << ClearCookie("access_token", FALSE),
                                    ClearCookie("refresh_token", TRUE) >>,
            !.calls = IF updates THEN <<"update">> ELSE <<>>,
            !.updated = IF updates THEN {v.payload.userId} ELSE {}],
       rows |-> IF written
                  THEN [rs EXCEPT ![v.payload.userId].refreshToken = "null"]
                  ELSE rs]

\* the logout that reads the subject without verifying the token
POST_logout_updatesUnverified(refreshToken, t, io, rs) ==
  LET v == verifyToken(refreshToken, t)
      updates == Truthy(refreshToken) /\ refreshToken.form = "jwt"
      written == updates /\ io = "ok" /\ v.payload.userId \in DOMAIN rs
  IN  [answer |->
         [NoResponse EXCEPT
            !.endpoint = "logout",
            !.status = 200,
            !.setCookie = << ClearCookie("access_token", FALSE),
                             ClearCookie("refresh_token", TRUE) >>,
            !.calls = IF updates THEN <<"update">> ELSE <<>>,
            !.updated = IF updates THEN {v.payload.userId} ELSE {}],
       rows |-> IF written
                  THEN [rs EXCEPT ![v.payload.userId].refreshToken = "null"]
                  ELSE rs]

\* io = "dbfail": prisma.user.update rejects; so it does for an id that has
\* no row; the catch swallows both
\* the logout that removes the row of the subject
POST_logout_deletesSubject(refreshToken, t, io, rs) ==
  LET v == verifyToken(refreshToken, t)
      updates == Truthy(refreshToken) /\ v.ok
      written == updates /\ io = "ok" /\ v.payload.userId \in DOMAIN rs
  IN  [answer |->
         [NoResponse EXCEPT
            !.endpoint = "logout",
            !.status = 200,
            !.setCookie = << ClearCookie("access_token", FALSE),
                             ClearCookie("refresh_token", TRUE) >>,
            !.calls = IF updates THEN <<"update">> ELSE <<>>,
            !.updated = IF updates THEN {v.payload.userId} ELSE {}],
       rows |-> IF written
                  THEN [id \in DOMAIN rs \ {v.payload.userId} |-> rs[id]]
                  ELSE rs]

POST_logout(refreshToken, t, io, rs) ==
  LET v == verifyToken(refreshToken, t)
      updates == Truthy(refreshToken) /\ v.ok
      written == updates /\ io = "ok" /\ v.payload.userId \in DOMAIN rs
  IN  [answer |->
         [NoResponse EXCEPT
            !.endpoint = "logout",
            !.status = 200,
            !.setCookie = << ClearCookie("access_token", FALSE),
                             ClearCookie("refresh_token", TRUE) >>,
            !.calls = IF updates THEN <<"update">> ELSE <<>>,
            !.updated = IF updates THEN {v.payload.userId} ELSE {}],
       rows |-> IF written
                  THEN [rs EXCEPT ![v.payload.userId].refreshToken = "null"]
                  ELSE rs]

(***************************************************************************)
(* The session endpoints as a state machine                                *)
(*                                                                         *)
(* resp is the answer to the most recent call of an endpoint and rows the  *)
(* user table after it; the browser keeps the cookies of an answer in jar  *)
(* and sends them to the refresh and logout endpoints.                     *)
(***************************************************************************)
\* a request whose body is not a JSON object carries no field
Unparsed == {[bodyKind |-> k, email |-> e_none, password |-> pw_none,
              io |-> "ok"] :
               k \in {"empty", "garbage"}}

Parsed(emails, passwords) ==
  {[bodyKind |-> "json", email |-> e, password |-> pw, io |-> "ok"] :
     e \in emails, pw \in passwords}

LoginRequests ==
  Unparsed \cup Parsed({e_none, e_bad, e_seed, e_new},
                       {pw_none, pw_seed, pw_good})

RegisterRequests ==
  Unparsed \cup Parsed({e_none, e_bad, e_padded, e_new, e_seed},
                       {pw_none, pw_weak, pw_nodigit, pw_good})

\* the store fails only under a request that reaches it
StoreFails(request, io) ==
  io # "ok" => (request.email = e_new /\ request.password = pw_good)

Answered(rev, answer, request, rs) ==
  /\ "none" \notin DOMAIN rs
  /\ resp' = [answer EXCEPT !.rev = rev, !.request = request, !.at = now,
                            !.before = rows]
  /\ rows' = rs
  /\ users' = DOMAIN rs
  /\ last' = Idle
  /\ loggedOut' = IF /\ answer.endpoint = "logout"
                       /\ answer.updated \cap DOMAIN rows # {}
                       /\ request.io = "ok"
                    THEN request.refresh_token
                    ELSE loggedOut
  /\ UNCHANGED <<now, ticks, jar, codec, pwcheck, flight>>

Login ==
  \E request \in LoginRequests, io \in {"ok", "dbfail"} :
    /\ StoreFails(request, io)
    /\ Answered("", POST_login(request.bodyKind, request.email,
                               request.password, now, io, rows),
                [request EXCEPT !.io = io], rows)

Register ==
  \E rev \in Revisions, request \in RegisterRequests,
     io \in {"ok", "findfail", "createfail"} :
    /\ StoreFails(request, io)
    /\ LET out == POST_register(rev, request.bodyKind, request.email,
                                request.password, now, io, rows)
       IN  Answered(rev, out.answer, [request EXCEPT !.io = io], out.rows)

\* GitHub and the store fail only under a request that carries a code
CallbackRequests ==
  {[code |-> c, chain |-> "ok", profile |-> [id |-> GITHUB_ID, email |-> e_none],
    io |-> "ok"] : c \in {"", " "}}
  \cup {[code |-> "c0de", chain |-> ch,
         profile |-> [id |-> GITHUB_ID, email |-> e_none], io |-> "ok"] :
          ch \in Chains \ {"ok"}}
  \cup {[code |-> "c0de", chain |-> "ok", profile |-> pr, io |-> io] :
          pr \in Profiles, io \in {"ok", "dbfail"}}

Callback ==
  \E rev \in {"a", "b"}, request \in CallbackRequests :
    LET out == GET_callback(rev, request.code, request.chain, request.profile,
                            now, request.io, rows)
    IN  Answered(rev, out.answer, request, out.rows)

TestLogin ==
  \E nodeEnv \in NodeEnvs, bodyKind \in BodyKinds, userId \in UserIds \cup {""} :
    /\ bodyKind # "json" => userId = ""
    /\ Answered("", POST_testLogin(nodeEnv, bodyKind, userId, now),
                [nodeEnv |-> nodeEnv, bodyKind |-> bodyKind, userId |-> userId],
                rows)

Refresh ==
  \E io \in {"ok", "dbfail"} :
    Answered("", RefreshAnswer(jar.refresh_token, now, io, users),
             [refresh_token |-> jar.refresh_token, io |-> io], rows)

\* prior: what the endpoint answered when the call before this one was a
\* logout too
Logout ==
  \E io \in {"ok", "dbfail"} :
    LET out == POST_logout(jar.refresh_token, now, io, rows)
    IN  Answered("", out.answer,
                 [refresh_token |-> jar.refresh_token, io |-> io,
                  prior |-> IF resp.endpoint = "logout"
                              THEN <<[status |-> resp.status,
                                      setCookie |-> resp.setCookie]>>
                              ELSE <<>>],
                 out.rows)

\* the browser applies every Set-Cookie header of the answer, in order; a
\* cookie that expires at the epoch is removed
Stored(cookies, j) ==
  [slot \in Slots |->
     LET hits == {i \in 1..Len(cookies) : cookies[i].name = slot}
         final == CHOOSE i \in hits : \A k \in hits : k <= i
     IN  IF hits = {} THEN j[slot]
         ELSE IF "expires" \in DOMAIN cookies[final] THEN NoCookie
         ELSE cookies[final].value]

BrowserStores ==
  /\ resp.setCookie # <<>>
  /\ jar' = Stored(resp.setCookie, jar)
  /\ jar' # jar
  /\ last' = Idle
  /\ UNCHANGED <<now, ticks, users, rows, resp, codec, pwcheck, loggedOut,
               flight>>

\* the clock stands still here: no answer of these endpoints depends on it
\* except through the tokens the refresh and logout endpoints verify
NextAuth ==
  \/ Login
  \/ Register
  \/ Callback
  \/ TestLogin
  \/ Refresh
  \/ Logout
  \/ BrowserStores

SpecAuth == Init /\ [][NextAuth]_vars

\* the Set-Cookie headers of the answer, and its minted refresh tokens
Cookies == {resp.setCookie[i] : i \in 1..Len(resp.setCookie)}
MintedRefresh ==
  {resp.minted[i] : i \in {k \in 1..Len(resp.minted) :
                             resp.minted[k].payload.type = "refresh"}}

(***************************************************************************)
(* C16: in every answer of every endpoint that issues a session (login,    *)
(* register, OAuth callback, test-login) the refresh token appears only in *)
(* a refresh_token cookie marked HttpOnly and never in the JSON body; no   *)
(* endpoint, the refresh endpoint included, returns a refresh token in a   *)
(* body.                                                                   *)
(***************************************************************************)
C16_RefreshConfined ==
  /\ \A entry \in resp.bodyTokens :
       /\ entry.field # "refreshToken"
       /\ entry.value.payload.type # "refresh"
  /\ \A token \in MintedRefresh :
       /\ \E c \in Cookies :
            c.name = "refresh_token" /\ c.value = token /\ c.httpOnly
       /\ \A c \in Cookies :
            c.value = token => (c.name = "refresh_token" /\ c.httpOnly)

C16_Witness ==
  /\ resp.endpoint = "login"
  /\ resp.status = 200
  /\ resp.user = "u2"
  /\ MintedRefresh # {}
  /\ resp.bodyTokens # {}

(***************************************************************************)
(* C17: every session cookie set by an endpoint (access_token and          *)
(* refresh_token, on login, register, refresh, OAuth callback, test-login  *)
(* and logout) carries both Path=/ and SameSite=Lax.                       *)
(***************************************************************************)
C17_PathAndSameSite ==
  \A c \in Cookies :
    c.name \in Slots => (c.path = "/" /\ c.sameSite = "Lax")

(***************************************************************************)
(* C18: every answer that sets an access_token cookie (login, refresh      *)
(* endpoint, OAuth callback, test-login) makes the same choice for         *)
(* HttpOnly, and that choice is the one required of the refresh endpoint:  *)
(* the cookie is HttpOnly.                                                 *)
(***************************************************************************)
C18_AccessCookieHttpOnly ==
  resp.endpoint \in {"login", "refresh", "callback", "test-login"}
  => \A c \in Cookies : c.name = "access_token" => c.httpOnly

\* the login request reached the credential check: its body was parsed,
\* both fields are non-empty and the lookup did not fail
Looked ==
  /\ resp.endpoint = "login"
  /\ resp.request.bodyKind = "json"
  /\ resp.request.email # e_none
  /\ resp.request.password # pw_none
  /\ resp.request.io = "ok"

\* the rows the lookup of the login request returned
Account == findUnique(rows, resp.request.email)

NoSuchAccount == Looked /\ Account = {}
OAuthOnly == Looked /\ \E id \in Account : rows[id].passwordHash = NoHash
WrongPassword ==
  /\ Looked
  /\ \E id \in Account :
       /\ rows[id].passwordHash # NoHash
       /\ rows[id].passwordHash # hashPassword(resp.request.password)

(***************************************************************************)
(* C19: the three login failures no such account, wrong password and       *)
(* OAuth-only account (null password hash) all produce status 401 with the *)
(* message that a login for an address nobody has produces, so that the    *)
(* answer does not reveal which case occurred.                             *)
(***************************************************************************)
C19_EnumerationSafe ==
  (NoSuchAccount \/ WrongPassword \/ OAuthOnly)
  => /\ resp.status = 401
     /\ resp.error = POST_login("json", e_bad, resp.request.password, now,
                                "ok", rows).error

(***************************************************************************)
(* C20: login mints an access and a refresh token, both for the stored     *)
(* user's id, exactly when the user exists, has a non-null password hash   *)
(* and the hash comparison returns true; on every 400 or 401 path no token *)
(* is minted and no session cookie is set.                                 *)
(***************************************************************************)
C20_SessionOnlyOnSuccess ==
  resp.endpoint = "login"
  => LET full == Looked /\ ~NoSuchAccount /\ ~OAuthOnly /\ ~WrongPassword
     IN  /\ resp.minted # <<>> <=> full
         /\ full =>
              \E id \in Account :
                /\ resp.status = 200
                /\ resp.minted = << generateAccessToken(id, now),
                                    generateRefreshToken(id, now) >>
                /\ resp.minted[1].payload.userId = id
                /\ resp.minted[2].payload.userId = id
                /\ resp.minted[1].payload.type = "access"
                /\ resp.minted[2].payload.type = "refresh"
         /\ resp.status \in {400, 401} =>
              (resp.minted = <<>> /\ resp.setCookie = <<>>)
         /\ ~full => resp.status \in {400, 401, 500}

C20_Witness ==
  /\ resp.endpoint = "login"
  /\ resp.status = 200
  /\ resp.user = "u2"
  /\ resp.request.email = e_new
  /\ Len(resp.minted) = 2
  /\ Len(resp.setCookie) = 2

\* ------------------------------------------------------------------
\* Login: what is refused before the store is reached
\* ------------------------------------------------------------------

\* the calls the answering handler made to the store, to bcrypt and to GitHub
Calls == {resp.calls[i] : i \in DOMAIN resp.calls}

\* a login request that carries no usable email or password, or an email
\* that is not an address
IllFormedLogin ==
  /\ resp.endpoint = "login"
  /\ \/ resp.request.bodyKind # "json"
     \/ resp.request.email = e_none
     \/ resp.request.password = pw_none
     \/ ~EMAIL_REGEX_test(resp.request.email)

\* C21: a login request whose email or password is missing or empty, or
\* whose email is not a well-formed address, is answered 400 and the user
\* store is not consulted for it.
C21_ValidationFirst ==
  IllFormedLogin => (resp.status = 400 /\ "findUnique" \notin Calls)

\* C22: for an account whose stored password hash is null the credential
\* check fails and the hash comparison is not invoked.
C22_NullHashNeverCompared ==
  (resp.endpoint = "login" /\ OAuthOnly)
    => /\ resp.status = 401
       /\ resp.minted = <<>>
       /\ resp.setCookie = <<>>
       /\ "compare" \notin Calls

C22_Witness ==
  /\ resp.endpoint = "login"
  /\ OAuthOnly
  /\ resp.request.password # pw_none
  /\ resp.status = 401

\* ------------------------------------------------------------------
\* The password policy on passwords typed one character at a time
\* ------------------------------------------------------------------

\* the longest password typed
MaxPasswordLen == 8

\* one character of each class the policy knows, and one of none
Alphabet == {"A", "a", "1", "!"}

Type ==
  \E c \in Alphabet :
    /\ Len(pwcheck.password) < MaxPasswordLen
    /\ pwcheck' = [NoPolicy EXCEPT !.password = Append(pwcheck.password, c)]
    /\ UNCHANGED <<now, ticks, users, jar, last, rows, resp, codec,
                   loggedOut, flight>>

CallValidatePassword ==
  /\ ~pwcheck.validated
  /\ pwcheck' = [pwcheck EXCEPT !.validated = TRUE,
                                !.result = validatePassword(pwcheck.password)]
  /\ UNCHANGED <<now, ticks, users, jar, last, rows, resp, codec, loggedOut,
               flight>>

NextPolicy == Type \/ CallValidatePassword

SpecPolicy == Init /\ [][NextPolicy]_vars

\* the rules of the policy, each with the message of its violation
Rules ==
  {[message |-> "password: 8 characters or more", class |-> {}],
   [message |-> "password: uppercase required", class |-> UPPERCASE],
   [message |-> "password: lowercase required", class |-> LOWERCASE],
   [message |-> "password: digit required", class |-> DIGITS]}

Violates(password, rule) ==
  IF rule.class = {}
    THEN Len(password) < MIN_PASSWORD_LENGTH
    ELSE \A i \in DOMAIN password : password[i] \notin rule.class

Violated(password) == {rule \in Rules : Violates(password, rule)}

(***************************************************************************)
(* C24: validatePassword returns valid = true exactly when the password    *)
(* has at least 8 characters and contains an uppercase letter, a lowercase *)
(* letter and a digit; otherwise the error list has one entry for every    *)
(* violated rule at once, and valid is true iff the list is empty.         *)
(***************************************************************************)
C24_AllViolationsReported ==
  pwcheck.validated =>
    LET password == pwcheck.password
        result == pwcheck.result
    IN  /\ result.valid <=> Violated(password) = {}
        /\ result.valid <=> result.errors = <<>>
        /\ Len(result.errors) = Cardinality(Violated(password))
        /\ \A rule \in Violated(password) :
             \E i \in DOMAIN result.errors : result.errors[i] = rule.message

\* a long enough password that lacks two classes at once
C24_Witness ==
  /\ pwcheck.validated
  /\ Len(pwcheck.password) >= MIN_PASSWORD_LENGTH
  /\ Len(pwcheck.result.errors) = 2

\* ------------------------------------------------------------------
\* Register: status codes, the policy rejection and the store
\* ------------------------------------------------------------------

\* a register request answered while the store worked
Registering == resp.endpoint = "register" /\ resp.request.io = "ok"

FieldsMissing ==
  \/ resp.request.bodyKind # "json"
  \/ resp.request.email = e_none
  \/ resp.request.password = pw_none

FieldsMalformed == ~FieldsMissing /\ ~EMAIL_REGEX_test(trim(resp.request.email))

\* every field present and the address well-formed as sent
WellFormed == ~FieldsMissing /\ EMAIL_REGEX_test(resp.request.email)

PolicyViolated == Violated(resp.request.password) # {}

\* the address was taken when the request arrived
Duplicate == findUnique(resp.before, resp.request.email) # {}

(***************************************************************************)
(* C25: a well-formed register request whose password violates the policy  *)
(* is answered 422, one with missing or malformed fields 400, a duplicate  *)
(* email 409, and a successful registration 201 with accessToken and user  *)
(* in the body and the refresh token in a Set-Cookie.                      *)
(***************************************************************************)
C25_RegisterStatusCodes ==
  Registering =>
    /\ (FieldsMissing \/ FieldsMalformed) => resp.status = 400
    /\ (WellFormed /\ PolicyViolated) => resp.status = 422
    /\ (WellFormed /\ ~PolicyViolated /\ Duplicate) => resp.status = 409
    /\ (WellFormed /\ ~PolicyViolated /\ ~Duplicate) => resp.status = 201
    /\ resp.status = 201 =>
         /\ \E f \in resp.bodyTokens : f.field = "accessToken"
         /\ resp.user # ""
         /\ \E i \in DOMAIN resp.setCookie :
              /\ resp.setCookie[i].name = "refresh_token"
              /\ resp.setCookie[i].value = resp.minted[2]

(***************************************************************************)
(* C26: when the password of a register request violates several rules of  *)
(* the policy, the 422 response reports every one of them, not only the    *)
(* first.                                                                  *)
(***************************************************************************)
C26_FullListReported ==
  (Registering /\ resp.status = 422) =>
    \A rule \in Violated(resp.request.password) : resp.error = rule.message

\* the row a register call added to the store
Created == {id \in DOMAIN rows : id \notin DOMAIN resp.before}

(***************************************************************************)
(* C27: register creates a user record, holding the hash and never the     *)
(* plaintext password, only after field validation and the password policy *)
(* passed and no user with that email was found; on every 400, 422 and 409 *)
(* no record is created, no password is hashed and no token is minted.     *)
(***************************************************************************)
C27_StoreOnlyOnSuccess ==
  resp.endpoint = "register" =>
    /\ \A id \in DOMAIN resp.before : rows[id] = resp.before[id]
    /\ resp.status \in {400, 422, 409} =>
         /\ Created = {}
         /\ "hash" \notin Calls
         /\ "create" \notin Calls
         /\ resp.minted = <<>>
    /\ Created # {} =>
         /\ resp.status = 201
         /\ ~FieldsMissing
         /\ ~FieldsMalformed
         /\ ~PolicyViolated
         /\ findUnique(resp.before, rows[CHOOSE id \in Created : TRUE].email) = {}
         /\ Cardinality(Created) = 1
         /\ \A id \in Created :
              /\ rows[id].passwordHash = hashPassword(resp.request.password)
              /\ rows[id].passwordHash # resp.request.password

\* a registration that created a record next to the seeded one
C27_Witness ==
  /\ resp.endpoint = "register"
  /\ resp.status = 201
  /\ Created # {}
  /\ \E id \in DOMAIN resp.before : resp.before[id].email = e_seed

\* ------------------------------------------------------------------
\* The first page request after a registration
\* ------------------------------------------------------------------

\* the signup page posts to the register endpoint, the browser keeps the
\* cookies of the answer, and the page then asks for /dashboard
NextOnboard == Register \/ BrowserStores \/ Gate \/ GateEdge

SpecOnboard == Init /\ [][NextOnboard]_vars

\* the browser holds exactly the cookies of a 201 answer of register
JustRegistered ==
  /\ resp.endpoint = "register"
  /\ resp.status = 201
  /\ jar = Stored(resp.setCookie, EmptyJar)

(***************************************************************************)
(* C28: following a register that returned 201, a request to a protected   *)
(* path that carries exactly the cookies set by that response is allowed   *)
(* by the gate rather than redirected to /login.                           *)
(***************************************************************************)
C28_SessionAfterRegister ==
  (JustRegistered /\ last.gate = "middleware" /\ Protected)
    => (Allowed /\ ~Rejected)

\* ------------------------------------------------------------------
\* The refresh and logout endpoints over cookies that age and get damaged
\* ------------------------------------------------------------------

NextSession ==
  \/ Tick
  \/ POST_test_login
  \/ ClientDrops
  \/ ClientGarbles
  \/ ClientTampers
  \/ ClientSwaps
  \/ Refresh
  \/ Logout
  \/ BrowserStores

SpecSession == Init /\ [][NextSession]_vars

\* the value of the refresh_token cookie of the answered request, and
\* whether it verified when the call was made
Presented == resp.request.refresh_token
PresentedVerifies == Truthy(Presented) /\ jwt_verify(Presented, resp.at).ok

RefreshCall == resp.endpoint = "refresh"
LogoutCall == resp.endpoint = "logout"

\* present, non-empty, verifies, of kind refresh, and its subject has a row
PresentedUsable ==
  /\ PresentedVerifies
  /\ Presented.payload.type = "refresh"
  /\ Presented.payload.userId \in DOMAIN resp.before

(***************************************************************************)
(* C23: the refresh endpoint answers 200 with body accessToken and a       *)
(* Set-Cookie for access_token, minted for the refresh token's subject,    *)
(* only when the refresh_token cookie is present, non-empty, verifies, has *)
(* kind refresh and its subject exists in the user store; in every other   *)
(* case (missing, empty, invalid, expired, wrong kind, unknown subject) it *)
(* answers 401 and mints no access token.                                  *)
(***************************************************************************)
C23_RefreshOnlyWhenUsable ==
  RefreshCall =>
    /\ resp.status = 200 => PresentedUsable
    /\ resp.status # 200 => (resp.minted = <<>> /\ resp.bodyTokens = {}
                               /\ resp.setCookie = <<>>)
    /\ resp.request.io = "ok" =>
         IF PresentedUsable
           THEN LET token == generateAccessToken(Presented.payload.userId,
                                                 resp.at)
                IN  /\ resp.status = 200
                    /\ resp.bodyTokens =
                         {[field |-> "accessToken", value |-> token]}
                    /\ Len(resp.setCookie) = 1
                    /\ resp.setCookie[1].name = "access_token"
                    /\ resp.setCookie[1].value = token
                    /\ resp.minted = <<token>>
           ELSE resp.status = 401

\* a refresh token that aged without expiring is exchanged
C23_Witness ==
  /\ RefreshCall
  /\ resp.status = 200
  /\ resp.at > Presented.payload.iat

\* the two headers that expire both cookies
Clearing(cookies) ==
  /\ Len(cookies) = 2
  /\ {cookies[i].name : i \in DOMAIN cookies} = Slots
  /\ \A i \in DOMAIN cookies :
       /\ cookies[i].value = EmptyValue
       /\ "expires" \in DOMAIN cookies[i]
       /\ cookies[i].expires = "Thu, 01 Jan 1970 00:00:00 GMT"

(***************************************************************************)
(* C29: for every cookie state (no cookies, an invalid or expired refresh  *)
(* token, a valid refresh token) and even when the store update fails, the *)
(* logout endpoint answers 200 and emits two Set-Cookie headers that       *)
(* expire both access_token and refresh_token; calling it repeatedly gives *)
(* the same response.                                                      *)
(***************************************************************************)
C29_LogoutAlwaysSucceeds ==
  LogoutCall =>
    /\ resp.status = 200
    /\ Clearing(resp.setCookie)
    /\ resp.request.prior # <<>> =>
         resp.request.prior[1] =
           [status |-> resp.status, setCookie |-> resp.setCookie]

\* a second logout in a row whose store update failed
C29_Witness ==
  /\ LogoutCall
  /\ resp.request.prior # <<>>
  /\ resp.request.io = "dbfail"
  /\ "update" \in Calls

(***************************************************************************)
(* C30: logout leaves the user store unchanged whenever the refresh_token  *)
(* cookie is absent or fails verification; the store is touched only for   *)
(* the subject of a refresh token that verified.                           *)
(***************************************************************************)
C30_LogoutTouchesOnlySubject ==
  LogoutCall =>
    /\ DOMAIN rows = DOMAIN resp.before
    /\ ~PresentedVerifies =>
         /\ rows = resp.before
         /\ "update" \notin Calls
         /\ resp.updated = {}
    /\ PresentedVerifies => resp.updated \subseteq {Presented.payload.userId}
    /\ \A id \in DOMAIN resp.before :
         id \notin resp.updated => rows[id] = resp.before[id]

\* a logout with a refresh token that expired, and nothing updated
C30_Witness ==
  /\ LogoutCall
  /\ Intact(Presented)
  /\ Presented.payload.type = "refresh"
  /\ ~PresentedVerifies
  /\ resp.updated = {}

\* ------------------------------------------------------------------
\* Tokens after a logout
\* ------------------------------------------------------------------

\* loggedOut notes the token of the latest logout whose update reached the
\* row of its subject; the program keeps no such note, it is kept here to
\* state what a token of a logged-out owner still obtains.  The holder of
\* the cookies may present them again after the logout: the browser clears
\* them only when it stores the answer.
NextRevoke ==
  \/ Tick
  \/ POST_test_login
  \/ Logout
  \/ Refresh
  \/ GateEdge
  \/ BrowserStores

SpecRevoke == Init /\ [][NextRevoke]_vars

\* an authentic token of the session that was logged out (the token of the
\* logout itself, or the one minted with it) that has not expired
LoggedOutLive(token) ==
  /\ Truthy(loggedOut)
  /\ Intact(token)
  /\ token.payload.userId = loggedOut.payload.userId
  /\ token.payload.iat = loggedOut.payload.iat
  /\ now < token.payload.exp

(***************************************************************************)
(* C31: after any sequence of operations including logout, a token issued  *)
(* earlier that has not reached its expiry is still accepted; a refresh    *)
(* token presented after its owner logged out still obtains a new access   *)
(* token from the refresh endpoint and from the gate.                      *)
(***************************************************************************)
C31_NotRevocable ==
  /\ (RefreshCall /\ resp.request.io = "ok" /\ resp.at = now
        /\ LoggedOutLive(Presented) /\ Presented.payload.type = "refresh")
       => (resp.status = 200 /\ Len(resp.minted) = 1
           /\ resp.minted[1].payload.userId = Presented.payload.userId)
  /\ (last.gate = "middlewareEdge" /\ Protected /\ ~AccessOK
        /\ LoggedOutLive(RT) /\ RT.payload.type = "refresh")
       => (Allowed /\ NewAccessCookie)
  /\ (last.gate = "middlewareEdge" /\ Protected /\ LoggedOutLive(AT)
        /\ AT.payload.type = "access")
       => Allowed

\* a refresh token is exchanged by the gate after the logout of its owner
\* and some time
C31_Witness ==
  /\ last.gate = "middlewareEdge"
  /\ Protected
  /\ ~AccessOK
  /\ LoggedOutLive(RT)
  /\ RT.payload.type = "refresh"
  /\ now > RT.payload.iat
  /\ Allowed

\* ------------------------------------------------------------------
\* The OAuth callback
\* ------------------------------------------------------------------

CallbackCall == resp.endpoint = "callback"

\* the answer sends the browser to the login page
ToLogin == resp.status \in {FOUND, TEMPORARY_REDIRECT} /\ resp.location = p_login

(***************************************************************************)
(* C32: a callback with a missing or empty code parameter redirects to the *)
(* login page without making any remote call, without touching the user    *)
(* store and without minting any token.                                    *)
(***************************************************************************)
C32_NoCodeNoCalls ==
  (CallbackCall /\ resp.request.code = "") =>
    /\ ToLogin
    /\ resp.calls = <<>>
    /\ rows = resp.before
    /\ resp.minted = <<>>
    /\ resp.setCookie = <<>>

\* a callback without a code arrives when the store already holds a user
\* that came through GitHub
C32_Witness ==
  /\ CallbackCall
  /\ resp.request.code = ""
  /\ ToLogin
  /\ \E id \in DOMAIN rows : rows[id].githubId = GITHUB_ID

\* the remote calls and the store call of the callback, in program order
Stages == <<"exchange", "profile", "upsert">>

(***************************************************************************)
(* C33: the profile fetch happens only after the token exchange succeeded  *)
(* with a token in its response, the upsert only after the profile fetch   *)
(* succeeded, and session tokens are minted only after the upsert; when    *)
(* the exchange returns non-success or lacks the token field, neither the  *)
(* profile endpoint nor the user store is called.                          *)
(***************************************************************************)
C33_CallbackOrdering ==
  CallbackCall =>
    /\ Len(resp.calls) <= Len(Stages)
    /\ resp.calls = SubSeq(Stages, 1, Len(resp.calls))
    /\ "profile" \in Calls =>
         resp.request.chain \notin {"exchange_nonok", "no_token", "network"}
    /\ "upsert" \in Calls => resp.request.chain = "ok"
    /\ resp.minted # <<>> =>
         /\ "upsert" \in Calls
         /\ resp.request.io = "ok"
         /\ \E id \in DOMAIN rows :
              /\ rows[id].githubId = resp.request.profile.id
              /\ \A i \in DOMAIN resp.minted :
                   resp.minted[i].payload.userId = id
    /\ resp.request.chain \in {"exchange_nonok", "no_token"} =>
         /\ resp.calls = <<"exchange">>
         /\ rows = resp.before
         /\ resp.minted = <<>>

\* the exchange answered without the token field
C33_Witness ==
  /\ CallbackCall
  /\ resp.request.chain = "no_token"
  /\ resp.calls = <<"exchange">>

\* something on the way of a callback failed
CallbackFailed ==
  /\ CallbackCall
  /\ \/ resp.request.code = ""
     \/ resp.request.chain # "ok"
     \/ resp.request.io # "ok"
     \/ "upsert" \in Calls /\ resp.minted = <<>>

(***************************************************************************)
(* C34: every failure in the chain (missing code, exchange failure,        *)
(* missing token field, profile fetch failure, network error, user-store   *)
(* failure) yields a 302 redirect to the login page, never a JSON or       *)
(* unhandled error, and the redirect carries the same generic failure      *)
(* indication whichever stage failed.                                      *)
(***************************************************************************)
C34_OneFailureOutcome ==
  CallbackFailed =>
    /\ resp.status = FOUND
    /\ resp.location = p_login
    /\ resp.query = GET_callback(resp.rev, "c0de", "exchange_nonok",
                                 resp.request.profile, resp.at, "ok",
                                 resp.before).answer.query

\* the rows that came through GitHub with the external id of the request
Known(rs) == findByGithubId(rs, resp.request.profile.id)

(***************************************************************************)
(* C35: after any sequence of successful OAuth callbacks there is at most  *)
(* one user record per external id; the first callback for an external id  *)
(* creates the record, every later one updates its profile fields, and all *)
(* of them issue sessions for the same subject id.                         *)
(***************************************************************************)
C35_UpsertIdentity ==
  /\ \A id, other \in DOMAIN rows :
       (rows[id].githubId # 0 /\ rows[id].githubId = rows[other].githubId)
         => id = other
  /\ (CallbackCall /\ resp.minted # <<>>) =>
       /\ Cardinality(Known(rows)) = 1
       /\ \A id \in Known(rows) :
            /\ rows[id].email = resp.request.profile.email
            /\ \A i \in DOMAIN resp.minted :
                 resp.minted[i].payload.userId = id
            /\ IF Known(resp.before) = {}
                 THEN DOMAIN rows = DOMAIN resp.before \cup {id}
                      /\ id \notin DOMAIN resp.before
                 ELSE DOMAIN rows = DOMAIN resp.before
                      /\ Known(resp.before) = {id}

\* a later callback for the same external id brought another address
C35_Witness ==
  /\ CallbackCall
  /\ resp.minted # <<>>
  /\ \E id \in Known(resp.before) :
       resp.before[id].email # resp.request.profile.email

\* ------------------------------------------------------------------
\* Test-login
\* ------------------------------------------------------------------

TestLoginCall == resp.endpoint = "test-login"

RefreshAttempts ==
  last.exec.fetches
  + (IF last.gate = "middlewareEdge"
       THEN Len(last.exec.verified) - (IF Truthy(AT) THEN 1 ELSE 0)
       ELSE 0)

\* the attempt of the request did not yield a new access token
AttemptFailed ==
  /\ RefreshAttempts >= 1
  /\ IF last.gate = "middlewareEdge"
       THEN ~RefreshUsable
       ELSE last.exec.refresh \in {"nonok", "threw"}

(***************************************************************************)
(* C37: the gate makes at most one refresh attempt per request and never   *)
(* retries: for every protected request the number of refresh-token        *)
(* verifications (or refresh-endpoint calls) is 0 or 1, and a failed       *)
(* attempt leads directly to the terminal outcome.                         *)
(***************************************************************************)
C37_AtMostOneAttempt ==
  Protected =>
    /\ RefreshAttempts \in {0, 1}
    /\ AttemptFailed =>
         /\ RefreshAttempts = 1
         /\ last.exec.setCookie = <<>>
         /\ last.exec.minted = <<>>
         /\ last.exec.outcome =
              (IF last.gate = "middlewareEdge" THEN "redirect" ELSE "next")
    /\ last.exec.setCookie # <<>> => RefreshAttempts = 1

\* the refresh endpoint refused the one call the gate made
C37_Witness ==
  /\ Protected
  /\ last.gate = "middleware"
  /\ last.exec.refresh = "nonok"
  /\ RefreshAttempts = 1

\* ------------------------------------------------------------------
\* Register requests in flight at the same time
\* ------------------------------------------------------------------

\* a valid request arrives and its handler runs up to the duplicate check:
\* the field and policy checks read nothing but the request
RegisterArrives ==
  \E r \in Reqs, rev \in Revisions, email \in {e_new, e_seed} :
    /\ flight[r].pc = "free"
    /\ flight' = [flight EXCEPT ![r] =
                    [FreeSlot EXCEPT
                       !.kind = "register", !.pc = "checking", !.rev = rev,
                       !.request = [bodyKind |-> "json", email |-> email,
                                    password |-> pw_good, io |-> "ok"]]]
    /\ UNCHANGED <<now, ticks, users, jar, last, rows, resp, codec, pwcheck,
                   loggedOut>>

\* await prisma.user.findUnique: the handler answers what the table of this
\* instant makes it answer, or goes on to hash and create
RegisterChecks ==
  \E r \in Reqs :
    /\ flight[r].kind = "register"
    /\ flight[r].pc = "checking"
    /\ LET q == flight[r].request
           out == POST_register(flight[r].rev, q.bodyKind, q.email,
                                q.password, now, "ok", rows)
       IN  flight' = [flight EXCEPT ![r] =
                        IF out.answer.status = 201
                          THEN [@ EXCEPT !.pc = "creating", !.seen = rows]
                          ELSE [@ EXCEPT !.pc = "done", !.seen = rows,
                                         !.answer = out.answer, !.at = now]]
    /\ UNCHANGED <<now, ticks, users, jar, last, rows, resp, codec, pwcheck,
                   loggedOut>>

\* await prisma.user.create: findUnique({ where: { email } }) needs a unique
\* index on email, so the create of an address that was taken in the
\* meantime rejects; the handler then answers as for any rejected create
RegisterCreates ==
  \E r \in Reqs :
    /\ flight[r].kind = "register"
    /\ flight[r].pc = "creating"
    /\ LET q == flight[r].request
           address == IF flight[r].rev = "r3" THEN trim(q.email) ELSE q.email
           taken == findUnique(rows, address) # {}
           out == IF taken
                    THEN POST_register(flight[r].rev, q.bodyKind, q.email,
                                       q.password, now, "createfail",
                                       flight[r].seen)
                    ELSE POST_register(flight[r].rev, q.bodyKind, q.email,
                                       q.password, now, "ok", rows)
       IN  /\ "none" \notin DOMAIN out.rows
           /\ rows' = IF taken THEN rows ELSE out.rows
           /\ users' = DOMAIN rows'
           /\ flight' = [flight EXCEPT ![r] =
                           [@ EXCEPT !.pc = "done", !.answer = out.answer,
                                     !.at = now]]
    /\ UNCHANGED <<now, ticks, jar, last, resp, codec, pwcheck, loggedOut>>

\* the answer leaves the server
RegisterAnswers ==
  \E r \in Reqs :
    /\ flight[r].kind = "register"
    /\ flight[r].pc = "done"
    /\ resp' = [flight[r].answer EXCEPT !.rev = flight[r].rev,
                                        !.request = flight[r].request,
                                        !.at = flight[r].at,
                                        !.before = flight[r].seen]
    /\ flight' = [flight EXCEPT ![r] = FreeSlot]
    /\ last' = Idle
    /\ UNCHANGED <<now, ticks, users, jar, rows, codec, pwcheck, loggedOut>>

NextRegisterRace ==
  RegisterArrives \/ RegisterChecks \/ RegisterCreates \/ RegisterAnswers

SpecRegisterRace == Init /\ [][NextRegisterRace]_vars

\* the register requests answered and not yet gone
RegisterDone == {r \in Reqs : flight[r].kind = "register" /\ flight[r].pc = "done"}

(***************************************************************************)
(* C39: under any interleaving of concurrent register requests for the     *)
(* same email with valid passwords, exactly one request creates the user   *)
(* and answers 201 and every other one answers 409; two records with the   *)
(* same email never exist.                                                 *)
(***************************************************************************)
C39_OneRegistrationWins ==
  /\ \A id, other \in DOMAIN rows :
       rows[id].email = rows[other].email => id = other
  /\ \A r \in RegisterDone : flight[r].answer.status \in {201, 409}
  /\ \A r, o \in RegisterDone :
       (/\ flight[r].request.email = flight[o].request.email
        /\ flight[r].answer.status = 201
        /\ flight[o].answer.status = 201) => r = o

\* ------------------------------------------------------------------
\* Gate requests in flight at the same time
\* ------------------------------------------------------------------

\* the browser sends a page request with the cookies it holds; several may
\* be on their way before the first is answered
GateArrives ==
  \E r \in Reqs :
    /\ flight[r].pc = "free"
    /\ Truthy(jar.refresh_token)
    /\ flight' = [flight EXCEPT ![r] =
                    [FreeSlot EXCEPT
                       !.kind = "gate", !.pc = "verifying",
                       !.rev = "middlewareEdge",
                       !.request = [path |-> p_dashboard, cookies |-> jar]]]
    /\ UNCHANGED <<now, ticks, users, jar, last, rows, resp, codec, pwcheck,
                   loggedOut>>

\* the gate runs on the cookies of its own request; it reads nothing else
\* but the clock
GateCompletes ==
  \E r \in Reqs :
    /\ flight[r].kind = "gate"
    /\ flight[r].pc = "verifying"
    /\ LET q == flight[r].request
       IN  flight' = [flight EXCEPT ![r] =
                        [@ EXCEPT !.pc = "done", !.at = now,
                                  !.answer =
                                     middlewareEdge(q.path,
                                                    q.cookies.access_token,
                                                    q.cookies.refresh_token,
                                                    now)]]
    /\ UNCHANGED <<now, ticks, users, jar, last, rows, resp, codec, pwcheck,
                   loggedOut>>

\* the answer leaves the server; what the browser does with its cookie is
\* of no concern to the requests that are already on their way
GateAnswers ==
  \E r \in Reqs :
    /\ flight[r].kind = "gate"
    /\ flight[r].pc = "done"
    /\ flight' = [flight EXCEPT ![r] = FreeSlot]
    /\ UNCHANGED <<now, ticks, users, jar, last, rows, resp, codec, pwcheck,
                   loggedOut>>

\* the browser opens its session
SessionOpens == jar = EmptyJar /\ POST_test_login

NextGateRace ==
  \/ Tick
  \/ SessionOpens
  \/ GateArrives
  \/ GateCompletes
  \/ GateAnswers

SpecGateRace == Init /\ [][NextGateRace]_vars

GateDone == {r \in Reqs : flight[r].kind = "gate" /\ flight[r].pc = "done"}

\* the request carried an access token that failed and a refresh token
\* that was valid when the gate looked at them
NeedsRefresh(r) ==
  LET c == flight[r].request.cookies
  IN  /\ Truthy(c.access_token)
      /\ ~jwt_verify(c.access_token, flight[r].at).ok
      /\ jwt_verify(c.refresh_token, flight[r].at).ok
      /\ c.refresh_token.payload.type = "refresh"

\* the request was let through with an access cookie minted for it
Refreshed(r) ==
  LET c == flight[r].request.cookies
      x == flight[r].answer
      token == generateAccessTokenEdge(c.refresh_token.payload.userId,
                                       flight[r].at)
  IN  /\ x.outcome = "next"
      /\ Len(x.setCookie) = 1
      /\ x.setCookie[1].name = "access_token"
      /\ x.setCookie[1].value = token
      /\ x.minted = <<token>>

(***************************************************************************)
(* C38: under any interleaving of two or more protected requests that      *)
(* carry the same expired access token and the same valid refresh token,   *)
(* every one of them is allowed and receives its own new access cookie; no *)
(* request's outcome depends on whether another request refreshed first,   *)
(* because the refresh token is neither consumed nor rotated.              *)
(***************************************************************************)
C38_IndependentRequests ==
  /\ \A r \in GateDone : NeedsRefresh(r) => Refreshed(r)
  /\ \A r \in GateDone :
       \A i \in DOMAIN flight[r].answer.setCookie :
         flight[r].answer.setCookie[i].name # "refresh_token"

\* two requests with the same cookies, one answered after the other was
\* refreshed
C38_Witness ==
  \E r, o \in GateDone :
    /\ flight[r].request.cookies = flight[o].request.cookies
    /\ NeedsRefresh(r)
    /\ NeedsRefresh(o)
    /\ flight[r].at < flight[o].at
    /\ Refreshed(o)

\* ------------------------------------------------------------------
\* The gates that ask the refresh endpoint and the gate that does not
\* ------------------------------------------------------------------

\* one request is put to a gate that delegates the refresh and to the gate
\* that verifies the refresh token inline, with the refresh endpoint and
\* the store at work
GateTwins ==
  \E pathname \in Paths, gate \in {"middleware", "middleware008"} :
    /\ last' = [gate |-> gate, path |-> pathname, prev |-> "none",
                exec |-> IF gate = "middleware"
                           THEN middleware(pathname, jar.access_token,
                                           jar.refresh_token, now, "ok", users)
                           ELSE middleware008(pathname, jar.access_token,
                                              jar.refresh_token, now, "ok",
                                              users),
                twin |-> middlewareEdge(pathname, jar.access_token,
                                        jar.refresh_token, now)]
    /\ UNCHANGED <<now, ticks, users, jar, resp, others>>

NextTwins == Env \/ GateTwins

SpecTwins == Init /\ [][NextTwins]_vars

\* the path is protected for both gates
ProtectedForBoth ==
  /\ last.gate \in {"middleware", "middleware008"}
  /\ ~last.exec.public
  /\ ~last.twin.public

(***************************************************************************)
(* C40: the gate that delegates refresh to the refresh endpoint and the    *)
(* gate that verifies the refresh token inline are equivalent: for every   *)
(* protected path and every combination of access-cookie state and         *)
(* refresh-cookie state both produce the same outcome class (ALLOW or      *)
(* redirect to /login) and both attach a new access cookie in the same     *)
(* cases.                                                                  *)
(***************************************************************************)
C40_GatesEquivalent ==
  ProtectedForBoth =>
    /\ last.exec.outcome = last.twin.outcome
    /\ (last.exec.setCookie # <<>>) <=> (last.twin.setCookie # <<>>)
====
